---- MODULE Spec2Model ----
(***************************************************************************)
(* Melee at Sea (web edition): the ship entity, the fire-zone geometry,    *)
(* the combat resolver, the AI policy and the Game turn controller with    *)
(* its key, click and frame handlers.                                      *)
(***************************************************************************)
EXTENDS Integers, Sequences, FiniteSets, TLC

VARIABLES
    state,          \* Game.state (a GameState value)
    selectedShip,   \* Game.selectedShip: a ship id, 0 for null
    playerWon,      \* Game.playerWon
    gameMode,       \* Game.gameMode
    aiActions,      \* Game.aiActions: the queued action-log lines
    aiActionIndex,  \* Game.aiActionIndex
    aiActionTimer,  \* Game.aiActionTimer, in milliseconds
    ships,          \* Game.allShips: ship id -> Ship fields
    titleState,     \* TitleScreen.state
    titleIndex,     \* TitleScreen.selectedIndex
    chosen,         \* history: the ship picked in this turn's select phase (0: none)
    ret             \* history: the last return value of an operation applied directly

vars == <<state, selectedShip, playerWon, gameMode, aiActions, aiActionIndex,
          aiActionTimer, ships, titleState, titleIndex, chosen, ret>>

----------------------------------------------------------------------------
(* Bounds of the model.  The program's board is 20 x 15 and each fleet has *)
(* seven ships; the model keeps the code and shrinks the board and fleet.  *)

\* Board.cols in the model (GRID_COLS is 20 in the program)
GRID_COLS == 4
\* Board.rows in the model (GRID_ROWS is 15 in the program)
GRID_ROWS == 3
\* largest amount handed to takeDamage when it is applied directly
MaxAmount == 3

\* [length, count] pairs of a fleet (the program: [[2,2],[3,3],[4,2]])
shipConfigs == << <<2, 1>> >>
\* the rows fleets are placed on (the program: 0, 2, .., 12)
yPositions == <<0, 2>>
\* frame times of update(dt), as dt * 1000
DtChoices == {400}

----------------------------------------------------------------------------
(* constants.js *)

UP == 0
RIGHT == 90
DOWN == 180
LEFT == 270

Orientations == {UP, RIGHT, DOWN, LEFT}

DIRECTION_VECTORS(o) ==
    CASE o = UP    -> [dx |-> 0,  dy |-> -1]
      [] o = RIGHT -> [dx |-> 1,  dy |-> 0]
      [] o = DOWN  -> [dx |-> 0,  dy |-> 1]
      [] o = LEFT  -> [dx |-> -1, dy |-> 0]

TITLE == "TITLE"
PLAYER_SELECT == "SELECT SHIP"
PLAYER_MOVE == "MOVE/ROTATE"
PLAYER_FIRE == "FIRE"
ENEMY_TURN == "ENEMY TURN"
PLAYER2_SELECT == "P2 SELECT SHIP"
PLAYER2_MOVE == "P2 MOVE/ROTATE"
PLAYER2_FIRE == "P2 FIRE"
GAME_OVER == "GAME OVER"

GameState == {TITLE, PLAYER_SELECT, PLAYER_MOVE, PLAYER_FIRE, ENEMY_TURN,
              PLAYER2_SELECT, PLAYER2_MOVE, PLAYER2_FIRE, GAME_OVER}

SINGLE_PLAYER == "single"
TWO_PLAYER == "two_player"

----------------------------------------------------------------------------
(* helpers of the model *)

Max(a, b) == IF a >= b THEN a ELSE b
Min(a, b) == IF a <= b THEN a ELSE b
Abs(a) == IF a >= 0 THEN a ELSE -a

Cell(cx, cy) == [x |-> cx, y |-> cy]

\* the elements of a sequence
Range(s) == {s[i] : i \in 1..Len(s)}

\* every ordering of a sequence's positions: the outcomes of shuffle()
Perms(n) == {p \in [1..n -> 1..n] : \A i, j \in 1..n : i # j => p[i] # p[j]}

Shuffles(s) == {[i \in 1..Len(s) |-> s[p[i]]] : p \in Perms(Len(s))}

----------------------------------------------------------------------------
(* board.js *)

IsValidCellOffByOne(gridX, gridY) ==
    gridX >= 0 /\ gridX <= GRID_COLS /\ gridY >= 0 /\ gridY <= GRID_ROWS

isValidCell(gridX, gridY) ==
    gridX >= 0 /\ gridX < GRID_COLS /\ gridY >= 0 /\ gridY < GRID_ROWS

----------------------------------------------------------------------------
(* ship.js *)

\* new Ship(x, y, length, orientation, team, board)
Ship(sx, sy, length, orientation, team) ==
    [x |-> sx, y |-> sy, length |-> length, orientation |-> orientation,
     team |-> team, selected |-> FALSE, hasMoved |-> FALSE, hasFired |-> FALSE,
     cannonsPerSide |-> length - 1]

isAlive(ship) == ship.cannonsPerSide > 0

\* the ship's cells at a bow position and orientation, bow first
getCellsAt(ship, newX, newY, newOrientation) ==
    LET dir == DIRECTION_VECTORS(newOrientation)
    IN  [k \in 1..ship.length |->
            Cell(newX - dir.dx * (k - 1), newY - dir.dy * (k - 1))]

getCells(ship) == getCellsAt(ship, ship.x, ship.y, ship.orientation)

\* the wide zone: up to maxRange cells to either side of every cell
getFireZones(ship, maxRange) ==
    LET shipCells == getCells(ship)
        perpDirs == IF ship.orientation = UP \/ ship.orientation = DOWN
                    THEN {[dx |-> 1, dy |-> 0], [dx |-> -1, dy |-> 0]}
                    ELSE {[dx |-> 0, dy |-> 1], [dx |-> 0, dy |-> -1]}
    IN  {c \in {Cell(shipCells[k].x + pdir.dx * distance,
                     shipCells[k].y + pdir.dy * distance) :
                    k \in 1..Len(shipCells), pdir \in perpDirs,
                    distance \in 1..maxRange} :
            isValidCell(c.x, c.y)}

CanOccupyIgnoringShips(sh, id, cells) ==
    \A k \in 1..Len(cells) : isValidCell(cells[k].x, cells[k].y)

CanOccupyWrecksBlock(sh, id, cells) ==
    /\ \A k \in 1..Len(cells) : isValidCell(cells[k].x, cells[k].y)
    /\ \A other \in DOMAIN sh :
          other = id \/ Range(cells) \cap Range(getCells(sh[other])) = {}

\* sh: the ships (allShips), id: this ship
canOccupy(sh, id, cells) ==
    /\ \A k \in 1..Len(cells) : isValidCell(cells[k].x, cells[k].y)
    /\ \A other \in DOMAIN sh :
          (other = id \/ ~isAlive(sh[other])) \/
          Range(cells) \cap Range(getCells(sh[other])) = {}

canMoveTo(sh, id, newX, newY) ==
    canOccupy(sh, id, getCellsAt(sh[id], newX, newY, sh[id].orientation))

MoveUnchecked(sh, id, direction) ==
    LET dir == DIRECTION_VECTORS(sh[id].orientation)
        sgn == IF direction = "forward" THEN 1
               ELSE IF direction = "backward" THEN -1 ELSE 0
    IN  [ok |-> TRUE, ships |-> [sh EXCEPT ![id].x = sh[id].x + sgn * dir.dx,
                                           ![id].y = sh[id].y + sgn * dir.dy]]

MoveAlwaysForward(sh, id, direction) ==
    LET dir == DIRECTION_VECTORS(sh[id].orientation)
        newX == sh[id].x + dir.dx
        newY == sh[id].y + dir.dy
    IN  IF canMoveTo(sh, id, newX, newY)
        THEN [ok |-> TRUE, ships |-> [sh EXCEPT ![id].x = newX, ![id].y = newY]]
        ELSE [ok |-> FALSE, ships |-> sh]

\* [ok, ships]: the return value and the ships afterwards
move(sh, id, direction) ==
    LET dir == DIRECTION_VECTORS(sh[id].orientation)
        dx == IF direction = "forward" THEN dir.dx
              ELSE IF direction = "backward" THEN -dir.dx ELSE 0
        dy == IF direction = "forward" THEN dir.dy
              ELSE IF direction = "backward" THEN -dir.dy ELSE 0
        newX == sh[id].x + dx
        newY == sh[id].y + dy
    IN  IF canMoveTo(sh, id, newX, newY)
        THEN [ok |-> TRUE, ships |-> [sh EXCEPT ![id].x = newX, ![id].y = newY]]
        ELSE [ok |-> FALSE, ships |-> sh]

canRotateTo(sh, id, newOrientation) ==
    canOccupy(sh, id, getCellsAt(sh[id], sh[id].x, sh[id].y, newOrientation))

RotateUnchecked(sh, id, direction) ==
    LET newOrientation == IF direction = "cw"
                          THEN (sh[id].orientation + 90) % 360
                          ELSE (sh[id].orientation - 90 + 360) % 360
    IN  [ok |-> TRUE, ships |-> [sh EXCEPT ![id].orientation = newOrientation]]

RotateNoWrap(sh, id, direction) ==
    LET newOrientation == IF direction = "cw"
                          THEN Min(sh[id].orientation + 90, LEFT)
                          ELSE Max(sh[id].orientation - 90, UP)
    IN  IF canRotateTo(sh, id, newOrientation)
        THEN [ok |-> TRUE, ships |-> [sh EXCEPT ![id].orientation = newOrientation]]
        ELSE [ok |-> FALSE, ships |-> sh]

rotate(sh, id, direction) ==
    LET newOrientation == IF direction = "cw"
                          THEN (sh[id].orientation + 90) % 360
                          ELSE (sh[id].orientation - 90 + 360) % 360
    IN  IF canRotateTo(sh, id, newOrientation)
        THEN [ok |-> TRUE, ships |-> [sh EXCEPT ![id].orientation = newOrientation]]
        ELSE [ok |-> FALSE, ships |-> sh]

TakeDamageNoFloor(ship, amount) ==
    LET c == ship.cannonsPerSide - amount
    IN  [ship |-> [ship EXCEPT !.cannonsPerSide = c], destroyed |-> c <= 0]

TakeDamageRepairs(ship, amount) ==
    LET c == ship.cannonsPerSide + amount
    IN  [ship |-> [ship EXCEPT !.cannonsPerSide = c], destroyed |-> c <= 0]

\* [ship, destroyed]: the ship afterwards and the return value
takeDamage(ship, amount) ==
    LET c == Max(0, ship.cannonsPerSide - amount)
    IN  [ship |-> [ship EXCEPT !.cannonsPerSide = c], destroyed |-> c <= 0]

----------------------------------------------------------------------------
(* combat.js *)

SideZonesSternFirst(ship) ==
    LET shipCells == getCells(ship)
        sideOffsets == IF ship.orientation = UP \/ ship.orientation = DOWN
                       THEN {[dx |-> -1, dy |-> 0], [dx |-> 1, dy |-> 0]}
                       ELSE {[dx |-> 0, dy |-> -1], [dx |-> 0, dy |-> 1]}
        bodySegments == Len(shipCells) - 1
        cannonCount == Min(ship.cannonsPerSide, bodySegments)
    IN  {c \in {Cell(shipCells[k].x + offset.dx, shipCells[k].y + offset.dy) :
                    k \in {i \in 1..Len(shipCells) :
                              i - 1 # 0 /\ i - 1 > bodySegments - cannonCount},
                    offset \in sideOffsets} :
            isValidCell(c.x, c.y)}

SideZonesAllBody(ship) ==
    LET shipCells == getCells(ship)
        sideOffsets == IF ship.orientation = UP \/ ship.orientation = DOWN
                       THEN {[dx |-> -1, dy |-> 0], [dx |-> 1, dy |-> 0]}
                       ELSE {[dx |-> 0, dy |-> -1], [dx |-> 0, dy |-> 1]}
    IN  {c \in {Cell(shipCells[k].x + offset.dx, shipCells[k].y + offset.dy) :
                    k \in {i \in 1..Len(shipCells) : i - 1 # 0},
                    offset \in sideOffsets} :
            isValidCell(c.x, c.y)}

SideZonesWide(ship) == getFireZones(ship, 3)

\* the narrow zone: the cells beside the body segments that carry cannons
getSideFireZones(ship) ==
    LET shipCells == getCells(ship)
        sideOffsets == IF ship.orientation = UP \/ ship.orientation = DOWN
                       THEN {[dx |-> -1, dy |-> 0], [dx |-> 1, dy |-> 0]}
                       ELSE {[dx |-> 0, dy |-> -1], [dx |-> 0, dy |-> 1]}
        bodySegments == Len(shipCells) - 1
        cannonCount == Min(ship.cannonsPerSide, bodySegments)
    IN  {c \in {Cell(shipCells[k].x + offset.dx, shipCells[k].y + offset.dy) :
                    k \in {i \in 1..Len(shipCells) : i - 1 # 0 /\ i - 1 <= cannonCount},
                    offset \in sideOffsets} :
            isValidCell(c.x, c.y)}

\* the ids of sh in allShips order
allShips(sh) == [k \in 1..Cardinality(DOMAIN sh) |-> k]

RECURSIVE targetsFrom(_, _, _, _)
targetsFrom(sh, attacker, fireZones, k) ==
    IF k > Cardinality(DOMAIN sh) THEN <<>>
    ELSE LET rest == targetsFrom(sh, attacker, fireZones, k + 1)
             shipCells == getCells(sh[k])
             hitCells == SelectSeq(shipCells, LAMBDA c : c \in fireZones)
         IN  IF k = attacker \/ sh[k].team = sh[attacker].team THEN rest
             ELSE IF ~isAlive(sh[k]) THEN rest
             ELSE IF Len(hitCells) > 0
                  THEN <<[ship |-> k, hitCells |-> hitCells]>> \o rest
                  ELSE rest

TargetsInRangeWithDead(sh, attacker) ==
    LET zone == getSideFireZones(sh[attacker])
        ids == SelectSeq(allShips(sh),
                         LAMBDA k : /\ k # attacker
                                    /\ sh[k].team # sh[attacker].team
                                    /\ Range(getCells(sh[k])) \cap zone # {})
    IN  [i \in 1..Len(ids) |->
            [ship |-> ids[i],
             hitCells |-> SelectSeq(getCells(sh[ids[i]]), LAMBDA c : c \in zone)]]

getTargetsInRange(sh, attacker) ==
    targetsFrom(sh, attacker, getSideFireZones(sh[attacker]), 1)

\* the first living enemy ship, in allShips order, with a cell on targetCell
firstShipOn(sh, attacker, targetCell) ==
    LET on == {k \in DOMAIN sh :
                  /\ k # attacker /\ sh[k].team # sh[attacker].team
                  /\ isAlive(sh[k])
                  /\ targetCell \in Range(getCells(sh[k]))}
    IN  IF on = {} THEN 0 ELSE CHOOSE k \in on : \A j \in on : k <= j

FireIgnoringZone(sh, attacker, targetCell) ==
    LET hit == firstShipOn(sh, attacker, targetCell)
    IN  IF hit = 0
        THEN [hitShip |-> 0, destroyed |-> FALSE, ships |-> sh]
        ELSE LET d == takeDamage(sh[hit], 1)
             IN  [hitShip |-> hit, destroyed |-> d.destroyed,
                  ships |-> [sh EXCEPT ![hit] = d.ship]]

\* [hitShip, destroyed, ships]; hitShip 0 for null
fire(sh, attacker, targetCell) ==
    LET inRange == targetCell \in getSideFireZones(sh[attacker])
        hit == firstShipOn(sh, attacker, targetCell)
    IN  IF ~inRange \/ hit = 0
        THEN [hitShip |-> 0, destroyed |-> FALSE, ships |-> sh]
        ELSE LET d == takeDamage(sh[hit], 1)
             IN  [hitShip |-> hit, destroyed |-> d.destroyed,
                  ships |-> [sh EXCEPT ![hit] = d.ship]]

RECURSIVE applyHits(_, _, _)
\* the loop over the targets: one takeDamage() per target
applyHits(sh, targets, k) ==
    IF k > Len(targets) THEN [hits |-> <<>>, ships |-> sh]
    ELSE IF Len(targets[k].hitCells) > 0
         THEN LET d == takeDamage(sh[targets[k].ship], 1)
                  after == applyHits([sh EXCEPT ![targets[k].ship] = d.ship],
                                     targets, k + 1)
              IN  [hits |-> <<[ship |-> targets[k].ship, destroyed |-> d.destroyed]>>
                               \o after.hits,
                   ships |-> after.ships]
         ELSE applyHits(sh, targets, k + 1)

FireBroadsidePerCell(sh, attacker) ==
    IF sh[attacker].cannonsPerSide <= 0
    THEN [hits |-> <<>>, ships |-> sh]
    ELSE LET targets == getTargetsInRange(sh, attacker)
             dmg(i) == takeDamage(sh[targets[i].ship], Len(targets[i].hitCells))
         IN  [hits |-> [i \in 1..Len(targets) |->
                          [ship |-> targets[i].ship, destroyed |-> dmg(i).destroyed]],
              ships |-> [k \in DOMAIN sh |->
                           IF \E i \in 1..Len(targets) : targets[i].ship = k
                           THEN dmg(CHOOSE i \in 1..Len(targets) :
                                       targets[i].ship = k).ship
                           ELSE sh[k]]]

FireBroadsideWithRecoil(sh, attacker) ==
    IF sh[attacker].cannonsPerSide <= 0
    THEN [hits |-> <<>>, ships |-> sh]
    ELSE LET r == applyHits(sh, getTargetsInRange(sh, attacker), 1)
         IN  [hits |-> r.hits,
              ships |-> [r.ships EXCEPT ![attacker] =
                            takeDamage(r.ships[attacker], Len(r.hits)).ship]]

\* [hits, ships]
fireBroadside(sh, attacker) ==
    IF sh[attacker].cannonsPerSide <= 0
    THEN [hits |-> <<>>, ships |-> sh]
    ELSE applyHits(sh, getTargetsInRange(sh, attacker), 1)

----------------------------------------------------------------------------
(* ai.js *)

\* the ids of a team's ships, in array order
teamShips(sh, team) ==
    LET ids == {k \in DOMAIN sh : sh[k].team = team}
    IN  SelectSeq(allShips(sh), LAMBDA k : k \in ids)

playerShips(sh) == teamShips(sh, "player")
enemyShips(sh) == teamShips(sh, "enemy")

RECURSIVE SumSeq(_)
SumSeq(s) == IF s = <<>> THEN 0 ELSE Head(s) + SumSeq(Tail(s))

evaluatePosition(sh, id) ==
    LET targets == getTargetsInRange(sh, id)
        bonus == SumSeq([k \in 1..Len(targets) |-> Len(targets[k].hitCells) * 10])
        alivePlayers == SelectSeq(playerShips(sh), LAMBDA p : isAlive(sh[p]))
        shipCells == getCells(sh[id])
        penalty == SumSeq([k \in 1..Len(alivePlayers) |->
                      5 * Cardinality({c \in 1..Len(shipCells) :
                            shipCells[c] \in getFireZones(sh[alivePlayers[k]], 3)})])
        closeness == SumSeq([k \in 1..Len(alivePlayers) |->
                      Max(0, 10 - (Abs(sh[id].x - sh[alivePlayers[k]].x)
                                   + Abs(sh[id].y - sh[alivePlayers[k]].y)))])
    IN  bonus - penalty + closeness

NoMove == [type |-> "none", dir |-> "none"]

Moves == << [type |-> "move", dir |-> "forward"],
            [type |-> "move", dir |-> "backward"],
            [type |-> "rotate", dir |-> "cw"],
            [type |-> "rotate", dir |-> "ccw"] >>

RestoreBowOnly(sh, id, old) ==
    [sh EXCEPT ![id].x = old.x, ![id].y = old.y]

\* a trial move: the ship is restored to oldX, oldY, oldOrientation afterwards
restore(sh, id, old) ==
    [sh EXCEPT ![id].x = old.x, ![id].y = old.y, ![id].orientation = old.orientation]

RECURSIVE tryMoves(_, _, _, _, _, _)
\* the loop of findBestMove over the shuffled moves; [move, ships]
tryMoves(sh, id, moves, k, bestScore, bestMove) ==
    IF k > Len(moves) THEN [move |-> bestMove, ships |-> sh]
    ELSE LET mv == moves[k]
             old == sh[id]
             tried == IF mv.type = "move" THEN move(sh, id, mv.dir)
                      ELSE rotate(sh, id, mv.dir)
             score == evaluatePosition(tried.ships, id)
             back == restore(tried.ships, id, old)
         IN  IF tried.ok /\ score > bestScore
             THEN tryMoves(back, id, moves, k + 1, score, mv)
             ELSE tryMoves(back, id, moves, k + 1, bestScore, bestMove)

\* every order this.shuffle(moves) can leave the four moves in
MoveOrders == Shuffles(Moves)

\* every outcome of findBestMove, one per shuffle of the moves
findBestMove(sh, id) ==
    {tryMoves(sh, id, moves, 1, -1, NoMove) : moves \in MoveOrders}

NoBest == [priority |-> -1, ship |-> 0, action |-> NoMove]

RECURSIVE scanShips(_, _, _, _)
\* the loop of takeTurn over the shuffled living ships; a set of [best, ships]
scanShips(sh, order, k, best) ==
    IF k > Len(order) THEN {[best |-> best, ships |-> sh]}
    ELSE LET id == order[k]
             targets == getTargetsInRange(sh, id)
         IN  IF Len(targets) > 0
             THEN scanShips(sh, order, k + 1,
                      IF best.priority < 2
                      THEN [priority |-> 2, ship |-> id,
                            action |-> [type |-> "fire", dir |-> "none"]]
                      ELSE best)
             ELSE UNION {scanShips(r.ships, order, k + 1,
                             IF r.move # NoMove /\ best.priority < 1
                             THEN [priority |-> 1, ship |-> id, action |-> r.move]
                             ELSE best) :
                         r \in findBestMove(sh, id)}

\* the fallback: a random living ship and its best move
fallback(order, found) ==
    IF found.best.ship # 0 THEN {found}
    ELSE UNION {{[best |-> [priority |-> -1, ship |-> order[k], action |-> r.move],
                  ships |-> r.ships] : r \in findBestMove(found.ships, order[k])} :
                k \in 1..Len(order)}

hitName(h) == IF h.destroyed THEN "destroyed a ship" ELSE "hit a ship"

\* the chosen action applied; [actions, ships]
execute(c) ==
    LET sh == c.ships
        id == c.best.ship
        act == c.best.action
    IN  IF id = 0 \/ act = NoMove THEN [actions |-> <<>>, ships |-> sh]
        ELSE IF act.type = "fire"
        THEN LET f == fireBroadside(sh, id)
             IN  [actions |-> IF Len(f.hits) > 0
                              THEN << <<"Enemy fired:">> \o
                                      [k \in 1..Len(f.hits) |-> hitName(f.hits[k])] >>
                              ELSE << <<"Enemy ship fired but missed!">> >>,
                  ships |-> [f.ships EXCEPT ![id].hasFired = TRUE]]
        ELSE IF act.type = "move"
        THEN LET m == move(sh, id, act.dir)
             IN  IF m.ok
                 THEN [actions |-> << <<"Enemy ship advanced">> >>,
                       ships |-> [m.ships EXCEPT ![id].hasMoved = TRUE]]
                 ELSE [actions |-> <<>>, ships |-> sh]
        ELSE LET r == rotate(sh, id, act.dir)
             IN  IF r.ok
                 THEN [actions |-> << <<"Enemy ship maneuvered">> >>,
                       ships |-> [r.ships EXCEPT ![id].hasMoved = TRUE]]
                 ELSE [actions |-> <<>>, ships |-> sh]

RECURSIVE scanFirstCome(_, _, _, _)
\* the loop with a broadside ranked no higher than a move
scanFirstCome(sh, order, k, best) ==
    IF k > Len(order) THEN {[best |-> best, ships |-> sh]}
    ELSE LET id == order[k]
             targets == getTargetsInRange(sh, id)
         IN  IF Len(targets) > 0
             THEN scanFirstCome(sh, order, k + 1,
                      IF best.priority < 1
                      THEN [priority |-> 1, ship |-> id,
                            action |-> [type |-> "fire", dir |-> "none"]]
                      ELSE best)
             ELSE UNION {scanFirstCome(r.ships, order, k + 1,
                             IF r.move # NoMove /\ best.priority < 1
                             THEN [priority |-> 1, ship |-> id, action |-> r.move]
                             ELSE best) :
                         r \in findBestMove(sh, id)}

TakeTurnFirstCome(sh) ==
    LET aliveShips == SelectSeq(enemyShips(sh), LAMBDA e : isAlive(sh[e]))
    IN  IF Len(aliveShips) = 0 THEN {[actions |-> <<>>, ships |-> sh]}
        ELSE {execute(c) :
                c \in UNION {UNION {fallback(order, found) :
                                      found \in scanFirstCome(sh, order, 1, NoBest)} :
                             order \in Shuffles(aliveShips)}}

\* the first ship of the shuffle fires, with a target in range or without
TakeTurnFiresBlind(sh) ==
    LET aliveShips == SelectSeq(enemyShips(sh), LAMBDA e : isAlive(sh[e]))
    IN  IF Len(aliveShips) = 0 THEN {[actions |-> <<>>, ships |-> sh]}
        ELSE {execute([best |-> [priority |-> 2, ship |-> order[1],
                                 action |-> [type |-> "fire", dir |-> "none"]],
                       ships |-> sh]) :
                order \in Shuffles(aliveShips)}

\* every outcome of takeTurn: a set of [actions, ships]
takeTurn(sh) ==
    LET aliveShips == SelectSeq(enemyShips(sh), LAMBDA e : isAlive(sh[e]))
    IN  IF Len(aliveShips) = 0 THEN {[actions |-> <<>>, ships |-> sh]}
        ELSE {execute(c) :
                c \in UNION {UNION {fallback(order, found) :
                                      found \in scanShips(sh, order, 1, NoBest)} :
                             order \in Shuffles(aliveShips)}}

----------------------------------------------------------------------------
(* title_screen.js *)

STATE_TITLE == 0
STATE_MENU == 1
STATE_NEWGAME == 2

mainMenu == <<"NEW GAME", "QUIT">>
newgameMenu == <<"SINGLE PLAYER", "2 PLAYER", "BACK">>

UpKeys == {"ArrowUp", "w", "W"}
DownKeys == {"ArrowDown", "s", "S"}

\* TitleScreen.handleKey: [result, titleState, titleIndex]
titleHandleKey(ts, ti, key) ==
    LET stay == [result |-> "null", titleState |-> ts, titleIndex |-> ti]
    IN  IF ts = STATE_TITLE
        THEN IF key = "Enter"
             THEN [stay EXCEPT !.titleState = STATE_MENU, !.titleIndex = 0]
             ELSE stay
        ELSE IF ts = STATE_MENU
        THEN IF key \in UpKeys
             THEN [stay EXCEPT !.titleIndex = (ti - 1 + Len(mainMenu)) % Len(mainMenu)]
             ELSE IF key \in DownKeys
             THEN [stay EXCEPT !.titleIndex = (ti + 1) % Len(mainMenu)]
             ELSE IF key = "Enter"
             THEN IF mainMenu[ti + 1] = "NEW GAME"
                  THEN [stay EXCEPT !.titleState = STATE_NEWGAME, !.titleIndex = 0]
                  ELSE IF mainMenu[ti + 1] = "QUIT"
                  THEN [stay EXCEPT !.result = "quit"]
                  ELSE stay
             ELSE IF key = "Escape"
             THEN [stay EXCEPT !.titleState = STATE_TITLE]
             ELSE stay
        ELSE IF ts = STATE_NEWGAME
        THEN IF key \in UpKeys
             THEN [stay EXCEPT !.titleIndex = (ti - 1 + Len(newgameMenu)) % Len(newgameMenu)]
             ELSE IF key \in DownKeys
             THEN [stay EXCEPT !.titleIndex = (ti + 1) % Len(newgameMenu)]
             ELSE IF key = "Enter"
             THEN IF newgameMenu[ti + 1] = "SINGLE PLAYER"
                  THEN [stay EXCEPT !.result = "start_single"]
                  ELSE IF newgameMenu[ti + 1] = "2 PLAYER"
                  THEN [stay EXCEPT !.result = "start_multi"]
                  ELSE [stay EXCEPT !.titleState = STATE_MENU, !.titleIndex = 0]
             ELSE IF key = "Escape"
             THEN [stay EXCEPT !.titleState = STATE_MENU, !.titleIndex = 0]
             ELSE stay
        ELSE stay

----------------------------------------------------------------------------
(* game.js: the Game object as a record g *)

RECURSIVE expandConfigs(_, _)
\* allLengths: each length repeated count times
expandConfigs(configs, k) ==
    IF k > Len(configs) THEN <<>>
    ELSE [i \in 1..configs[k][2] |-> configs[k][1]] \o expandConfigs(configs, k + 1)

PlaceShipsBowAtEdge(cols, playerLengths, playerY, enemyLengths, enemyY) ==
    LET n == Len(playerLengths)
    IN  [k \in 1..(2 * n) |->
            IF k <= n
            THEN Ship(playerLengths[k] - 1,
                      playerY[((k - 1) % Len(playerY)) + 1],
                      playerLengths[k], RIGHT, "player")
            ELSE Ship(cols - 1,
                      enemyY[((k - n - 1) % Len(enemyY)) + 1],
                      enemyLengths[k - n], LEFT, "enemy")]

\* the two placement loops of initShips for given shuffles, the enemy's bow at
\* cols - length (the program writes 20 - length)
placeShipsOn(cols, playerLengths, playerY, enemyLengths, enemyY) ==
    LET n == Len(playerLengths)
    IN  [k \in 1..(2 * n) |->
            IF k <= n
            THEN Ship(playerLengths[k] - 1,
                      playerY[((k - 1) % Len(playerY)) + 1],
                      playerLengths[k], RIGHT, "player")
            ELSE Ship(cols - enemyLengths[k - n],
                      enemyY[((k - n - 1) % Len(enemyY)) + 1],
                      enemyLengths[k - n], LEFT, "enemy")]

\* the fleets for given shuffles (the program's enemy bow is 20 - length on
\* its 20 columns; here the board has GRID_COLS columns)
placeShips(playerLengths, playerY, enemyLengths, enemyY) ==
    placeShipsOn(GRID_COLS, playerLengths, playerY, enemyLengths, enemyY)

\* every outcome of initShips
initShips ==
    LET allLengths == expandConfigs(shipConfigs, 1)
    IN  {placeShips(pl, py, el, ey) :
            pl \in Shuffles(allLengths), py \in Shuffles(yPositions),
            el \in Shuffles(allLengths), ey \in Shuffles(yPositions)}

resetGame(g) ==
    {[g EXCEPT !.state = PLAYER_SELECT, !.selectedShip = 0, !.playerWon = FALSE,
               !.ships = fleet, !.chosen = 0] : fleet \in initShips}

startGame(g, mode) == resetGame([g EXCEPT !.gameMode = mode])

ClearFlagsKeeping(sh, team, withSelected) ==
    [k \in DOMAIN sh |->
        IF sh[k].team = team
        THEN [sh[k] EXCEPT !.selected = IF withSelected THEN FALSE ELSE @]
        ELSE sh[k]]

clearFlags(sh, team, withSelected) ==
    [k \in DOMAIN sh |->
        IF sh[k].team = team
        THEN [sh[k] EXCEPT !.hasMoved = FALSE, !.hasFired = FALSE,
                           !.selected = IF withSelected THEN FALSE ELSE @]
        ELSE sh[k]]

startPlayerTurn(g) ==
    [g EXCEPT !.state = PLAYER_SELECT, !.selectedShip = 0, !.chosen = 0,
              !.ships = clearFlags(g.ships, "player", TRUE)]

startPlayer2Turn(g) ==
    [g EXCEPT !.state = PLAYER2_SELECT, !.selectedShip = 0, !.chosen = 0,
              !.ships = clearFlags(g.ships, "enemy", TRUE)]

StartEnemyTurnAlwaysAI(g) ==
    {[g EXCEPT !.state = ENEMY_TURN, !.selectedShip = 0, !.chosen = 0,
               !.ships = t.ships, !.aiActions = t.actions,
               !.aiActionIndex = 0, !.aiActionTimer = 500] :
        t \in takeTurn(clearFlags(g.ships, "enemy", FALSE))}

\* a set: the AI's turn is taken here, with its random choices
startEnemyTurn(g) ==
    IF g.gameMode = TWO_PLAYER THEN {startPlayer2Turn(g)}
    ELSE {[g EXCEPT !.state = ENEMY_TURN, !.selectedShip = 0, !.chosen = 0,
                    !.ships = t.ships, !.aiActions = t.actions,
                    !.aiActionIndex = 0, !.aiActionTimer = 500] :
            t \in takeTurn(clearFlags(g.ships, "enemy", FALSE))}

CheckGameOverPlayerFirst(g) ==
    LET playerAlive == \E k \in Range(playerShips(g.ships)) : isAlive(g.ships[k])
        enemyAlive == \E k \in Range(enemyShips(g.ships)) : isAlive(g.ships[k])
    IN  IF ~playerAlive
        THEN [ret |-> TRUE, g |-> [g EXCEPT !.state = GAME_OVER, !.playerWon = FALSE]]
        ELSE IF ~enemyAlive
        THEN [ret |-> TRUE, g |-> [g EXCEPT !.state = GAME_OVER, !.playerWon = TRUE]]
        ELSE [ret |-> FALSE, g |-> g]

\* [ret, g]: the return value and the game afterwards
checkGameOver(g) ==
    LET playerAlive == \E k \in Range(playerShips(g.ships)) : isAlive(g.ships[k])
        enemyAlive == \E k \in Range(enemyShips(g.ships)) : isAlive(g.ships[k])
    IN  IF ~enemyAlive
        THEN [ret |-> TRUE, g |-> [g EXCEPT !.state = GAME_OVER, !.playerWon = TRUE]]
        ELSE IF ~playerAlive
        THEN [ret |-> TRUE, g |-> [g EXCEPT !.state = GAME_OVER, !.playerWon = FALSE]]
        ELSE [ret |-> FALSE, g |-> g]

SelectShipIntoFire(g, ship, player) ==
    [g EXCEPT !.selectedShip = ship, !.chosen = ship,
              !.ships = [g.ships EXCEPT ![ship].selected = TRUE],
              !.state = IF player = 1 THEN PLAYER_FIRE ELSE PLAYER2_FIRE]

selectShip(g, ship, player) ==
    LET cleared == IF g.selectedShip # 0
                   THEN [g.ships EXCEPT ![g.selectedShip].selected = FALSE]
                   ELSE g.ships
    IN  [g EXCEPT !.selectedShip = ship, !.chosen = ship,
                  !.ships = [cleared EXCEPT ![ship].selected = TRUE],
                  !.state = IF player = 1 THEN PLAYER_MOVE ELSE PLAYER2_MOVE]

\* the first living ship of ids (in order) with a cell on grid; 0 if none
shipAt(sh, ids, grid) ==
    LET on == {k \in 1..Len(ids) :
                  isAlive(sh[ids[k]]) /\ grid \in Range(getCells(sh[ids[k]]))}
    IN  IF on = {} THEN 0 ELSE ids[CHOOSE k \in on : \A j \in on : k <= j]

HandleClickAnyFleet(g, grid) ==
    IF g.state = PLAYER_SELECT
    THEN LET ship == shipAt(g.ships, allShips(g.ships), grid)
         IN  IF ship # 0 THEN selectShip(g, ship, 1) ELSE g
    ELSE IF g.state = PLAYER2_SELECT
    THEN LET ship == shipAt(g.ships, allShips(g.ships), grid)
         IN  IF ship # 0 THEN selectShip(g, ship, 2) ELSE g
    ELSE g

handleClick(g, grid) ==
    IF g.state = GAME_OVER THEN g
    ELSE IF g.state = PLAYER_SELECT
    THEN LET ship == shipAt(g.ships, playerShips(g.ships), grid)
         IN  IF ship # 0 THEN selectShip(g, ship, 1) ELSE g
    ELSE IF g.state = PLAYER2_SELECT
    THEN LET ship == shipAt(g.ships, enemyShips(g.ships), grid)
         IN  IF ship # 0 THEN selectShip(g, ship, 2) ELSE g
    ELSE IF g.state = PLAYER_FIRE \/ g.state = PLAYER2_FIRE
    THEN IF g.selectedShip # 0 /\ ~g.ships[g.selectedShip].hasFired
            /\ grid \in getSideFireZones(g.ships[g.selectedShip])
         THEN LET result == fire(g.ships, g.selectedShip, grid)
                  fired == [g EXCEPT !.ships =
                               [result.ships EXCEPT ![g.selectedShip].hasFired = TRUE]]
              IN  IF result.hitShip # 0 THEN checkGameOver(fired).g ELSE fired
         ELSE g
    ELSE g

----------------------------------------------------------------------------
(* game.js: handleKeyDown.  Its blocks run in sequence on the game as the  *)
(* earlier blocks left it; each yields a set of [g, done], done for return *)

ForwardKeys == {"w", "W", "ArrowUp"}
BackwardKeys == {"s", "S", "ArrowDown"}
CcwKeys == {"q", "Q", "a", "A", "ArrowLeft"}
CwKeys == {"e", "E", "d", "D", "ArrowRight"}
FireKeys == {" ", "f", "F"}
RestartKeys == {"r", "R"}

\* the keys pressed in the model: one or two of each kind, and one unbound key
Keys == {"Enter", "Escape", "Tab", "x", "ArrowUp", "s", "q", "d", " ", "r"}

Go(g) == [g |-> g, done |-> FALSE]
Return(g) == [g |-> g, done |-> TRUE]

titleKey(g, key) ==
    LET t == titleHandleKey(g.titleState, g.titleIndex, key)
        g1 == [g EXCEPT !.titleState = t.titleState, !.titleIndex = t.titleIndex]
    IN  IF t.result = "start_single"
        THEN {Return(n) : n \in startGame(g1, SINGLE_PLAYER)}
        ELSE IF t.result = "start_multi"
        THEN {Return(n) : n \in startGame(g1, TWO_PLAYER)}
        ELSE {Return(g1)}

GameOverKeyWithEscape(g, key) ==
    IF key \in RestartKeys
    THEN {Return(n) : n \in startGame(g, g.gameMode)}
    ELSE IF key = "Escape"
    THEN {Return([g EXCEPT !.state = TITLE, !.titleState = STATE_TITLE,
                           !.titleIndex = 0])}
    ELSE {Return(g)}

gameOverKey(g, key) ==
    IF key \in RestartKeys
    THEN {Return(n) : n \in startGame(g, g.gameMode)}
    ELSE {Return(g)}

escapeKey(g, key) ==
    IF key = "Escape"
    THEN {Return([g EXCEPT !.state = TITLE, !.titleState = STATE_TITLE,
                           !.titleIndex = 0])}
    ELSE {Go(g)}

\* Player 1 SELECT phase
selectPhase(g, key) ==
    IF g.state = PLAYER_SELECT /\ key = "Enter"
    THEN {Go(n) : n \in startEnemyTurn(g)}
    ELSE {Go(g)}

\* the move or rotation a key asks of the selected ship; [ok, ships]
keyMove(sh, id, key) ==
    IF key \in ForwardKeys THEN move(sh, id, "forward")
    ELSE IF key \in BackwardKeys THEN move(sh, id, "backward")
    ELSE IF key \in CcwKeys THEN rotate(sh, id, "ccw")
    ELSE IF key \in CwKeys THEN rotate(sh, id, "cw")
    ELSE [ok |-> FALSE, ships |-> sh]

\* Player 1 MOVE phase and Player 2 MOVE phase
movePhase(g, key, movePh, firePh) ==
    IF g.state # movePh THEN {Go(g)}
    ELSE LET g1 == IF g.selectedShip # 0
                   THEN [g EXCEPT !.ships = keyMove(g.ships, g.selectedShip, key).ships]
                   ELSE g
         IN  IF key = "Enter"
             THEN {Return([g1 EXCEPT !.state = firePh, !.selectedShip = 0,
                              !.ships = IF g1.selectedShip # 0
                                        THEN [g1.ships EXCEPT
                                                ![g1.selectedShip].selected = FALSE]
                                        ELSE g1.ships])}
             ELSE {Go(g1)}

\* SPACE or F in a fire phase: the broadside, then the hand-over of the turn
broadsideKey(g, nextTurn) ==
    IF g.selectedShip # 0 /\ ~g.ships[g.selectedShip].hasFired
    THEN LET f == fireBroadside(g.ships, g.selectedShip)
             fired == [g EXCEPT !.ships =
                          [f.ships EXCEPT ![g.selectedShip].hasFired = TRUE]]
             checked == IF Len(f.hits) > 0 THEN checkGameOver(fired).g ELSE fired
             cleared == [checked EXCEPT !.selectedShip = 0,
                           !.ships = [checked.ships EXCEPT
                                        ![g.selectedShip].selected = FALSE]]
         IN  IF nextTurn = ENEMY_TURN THEN startEnemyTurn(cleared)
             ELSE {startPlayerTurn(cleared)}
    ELSE {g}

\* Player 1 FIRE phase
firePhase(g, key) ==
    IF g.state # PLAYER_FIRE THEN {Go(g)}
    ELSE IF key \in FireKeys THEN {Go(n) : n \in broadsideKey(g, ENEMY_TURN)}
    ELSE IF key = "Enter" THEN {Go(n) : n \in startEnemyTurn(g)}
    ELSE {Go(g)}

\* Player 2 FIRE phase
fire2Phase(g, key) ==
    IF g.state # PLAYER2_FIRE THEN {Go(g)}
    ELSE IF key \in FireKeys THEN {Go(n) : n \in broadsideKey(g, PLAYER_SELECT)}
    ELSE IF key = "Enter" THEN {Go(startPlayerTurn(g))}
    ELSE {Go(g)}

TabKeepsMark(g, key) ==
    IF key = "Tab" /\ g.selectedShip # 0
    THEN {Return([g EXCEPT !.selectedShip = 0,
                     !.state = IF g.state = PLAYER_MOVE \/ g.state = PLAYER_FIRE
                               THEN PLAYER_SELECT
                               ELSE IF g.state = PLAYER2_MOVE \/ g.state = PLAYER2_FIRE
                               THEN PLAYER2_SELECT
                               ELSE g.state])}
    ELSE {Return(g)}

\* Deselect
tabKey(g, key) ==
    IF key = "Tab" /\ g.selectedShip # 0
    THEN {Return([g EXCEPT !.selectedShip = 0,
                     !.ships = [g.ships EXCEPT ![g.selectedShip].selected = FALSE],
                     !.state = IF g.state = PLAYER_MOVE \/ g.state = PLAYER_FIRE
                               THEN PLAYER_SELECT
                               ELSE IF g.state = PLAYER2_MOVE \/ g.state = PLAYER2_FIRE
                               THEN PLAYER2_SELECT
                               ELSE g.state])}
    ELSE {Return(g)}

\* the blocks of handleKeyDown after the TITLE and GAME_OVER blocks, in order
blockAt(i, g, key) ==
    CASE i = 1 -> escapeKey(g, key)
      [] i = 2 -> selectPhase(g, key)
      [] i = 3 -> movePhase(g, key, PLAYER_MOVE, PLAYER_FIRE)
      [] i = 4 -> firePhase(g, key)
      [] i = 5 -> movePhase(g, key, PLAYER2_MOVE, PLAYER2_FIRE)
      [] i = 6 -> fire2Phase(g, key)
      [] OTHER -> tabKey(g, key)

\* each block in turn, unless an earlier one returned
RECURSIVE runBlocks(_, _, _)
runBlocks(S, key, i) ==
    IF i > 7 THEN S
    ELSE runBlocks(UNION {IF r.done THEN {r} ELSE blockAt(i, r.g, key) : r \in S},
                   key, i + 1)

\* every outcome of handleKeyDown(event)
handleKeyDown(g, key) ==
    LET blocks ==
          IF g.state = TITLE THEN titleKey(g, key)
          ELSE IF g.state = GAME_OVER THEN gameOverKey(g, key)
          ELSE runBlocks({Go(g)}, key, 1)
    IN  {r.g : r \in blocks}

UpdateWithoutCheck(g, dt) ==
    IF g.state # ENEMY_TURN THEN g
    ELSE LET timer == g.aiActionTimer - dt
         IN  IF timer > 0 THEN [g EXCEPT !.aiActionTimer = timer]
             ELSE IF g.aiActionIndex < Len(g.aiActions)
             THEN [g EXCEPT !.aiActionIndex = g.aiActionIndex + 1,
                            !.aiActionTimer = 800]
             ELSE startPlayerTurn([g EXCEPT !.aiActionTimer = timer])

UpdateStalls(g, dt) ==
    IF g.state # ENEMY_TURN THEN g
    ELSE LET timer == g.aiActionTimer - dt
         IN  IF timer > 0 THEN [g EXCEPT !.aiActionTimer = timer]
             ELSE IF g.aiActionIndex < Len(g.aiActions)
             THEN [g EXCEPT !.aiActionIndex = g.aiActionIndex + 1,
                            !.aiActionTimer = 800]
             ELSE [g EXCEPT !.aiActionTimer = 800]

\* update(dt), dt in milliseconds
update(g, dt) ==
    IF g.state # ENEMY_TURN THEN g
    ELSE LET timer == g.aiActionTimer - dt
             ticked == [g EXCEPT !.aiActionTimer = timer]
         IN  IF timer > 0 THEN ticked
             ELSE IF g.aiActionIndex < Len(g.aiActions)
             THEN [g EXCEPT !.aiActionIndex = g.aiActionIndex + 1,
                            !.aiActionTimer = 800]
             ELSE LET over == checkGameOver(ticked)
                  IN  IF ~over.ret THEN startPlayerTurn(ticked) ELSE over.g

----------------------------------------------------------------------------
(* The game as a state machine: one action per handler *)

G == [state |-> state, selectedShip |-> selectedShip, playerWon |-> playerWon,
      gameMode |-> gameMode, aiActions |-> aiActions,
      aiActionIndex |-> aiActionIndex, aiActionTimer |-> aiActionTimer,
      ships |-> ships, titleState |-> titleState, titleIndex |-> titleIndex,
      chosen |-> chosen]

Install(g) ==
    /\ state' = g.state
    /\ selectedShip' = g.selectedShip
    /\ playerWon' = g.playerWon
    /\ gameMode' = g.gameMode
    /\ aiActions' = g.aiActions
    /\ aiActionIndex' = g.aiActionIndex
    /\ aiActionTimer' = g.aiActionTimer
    /\ ships' = g.ships
    /\ titleState' = g.titleState
    /\ titleIndex' = g.titleIndex
    /\ chosen' = g.chosen

\* the cells a click can land on: the board and one place off it
ClickCells == {Cell(cx, cy) : cx \in 0..(GRID_COLS - 1), cy \in 0..(GRID_ROWS - 1)}
                 \cup {Cell(-1, -1)}

\* the Game constructor
Init ==
    /\ state = TITLE
    /\ selectedShip = 0
    /\ playerWon = FALSE
    /\ gameMode = SINGLE_PLAYER
    /\ aiActions = <<>>
    /\ aiActionIndex = 0
    /\ aiActionTimer = 0
    /\ ships \in initShips
    /\ titleState = STATE_TITLE
    /\ titleIndex = 0
    /\ chosen = 0
    /\ ret = [op |-> "none"]

KeyDown ==
    \E key \in Keys : \E g \in handleKeyDown(G, key) :
        Install(g) /\ UNCHANGED ret

Click ==
    \E grid \in ClickCells : Install(handleClick(G, grid)) /\ UNCHANGED ret

Frame ==
    \E dt \in DtChoices : Install(update(G, dt)) /\ UNCHANGED ret

Next == KeyDown \/ Click \/ Frame

Spec == Init /\ [][Next]_vars

----------------------------------------------------------------------------
(* Operations applied directly, for the claims about one operation *)

\* three ships from the constructor, one of each length, on rows of their own
DamageFleet ==
    << Ship(1, 0, 2, RIGHT, "player"),
       Ship(2, 1, 3, RIGHT, "player"),
       Ship(3, 2, 4, RIGHT, "enemy") >>

InitDamage ==
    /\ state = PLAYER_SELECT
    /\ selectedShip = 0
    /\ playerWon = FALSE
    /\ gameMode = SINGLE_PLAYER
    /\ aiActions = <<>>
    /\ aiActionIndex = 0
    /\ aiActionTimer = 0
    /\ ships = DamageFleet
    /\ titleState = STATE_NEWGAME
    /\ titleIndex = 0
    /\ chosen = 0
    /\ ret = [op |-> "none"]

\* ship.takeDamage(amount)
TakeDamage ==
    \E k \in DOMAIN ships, amount \in 0..MaxAmount :
        LET d == takeDamage(ships[k], amount)
        IN  /\ ships' = [ships EXCEPT ![k] = d.ship]
            /\ ret' = [op |-> "takeDamage", ship |-> k, amount |-> amount,
                       before |-> ships[k].cannonsPerSide,
                       destroyed |-> d.destroyed]
            /\ UNCHANGED <<state, selectedShip, playerWon, gameMode, aiActions,
                           aiActionIndex, aiActionTimer, titleState, titleIndex,
                           chosen>>

SpecDamage == InitDamage /\ [][TakeDamage]_vars

\* a fleet of initShips with any capacities left
damaged(fleet, caps) ==
    [k \in DOMAIN fleet |-> [fleet[k] EXCEPT !.cannonsPerSide = caps[k]]]

InitGameOver ==
    /\ state \in GameState \ {TITLE}
    /\ selectedShip = 0
    /\ playerWon \in BOOLEAN
    /\ gameMode \in {SINGLE_PLAYER, TWO_PLAYER}
    /\ aiActions = <<>>
    /\ aiActionIndex = 0
    /\ aiActionTimer = 0
    /\ \E fleet \in initShips :
         \E caps \in [DOMAIN fleet -> 0..1] :
            /\ \A k \in DOMAIN fleet : caps[k] <= fleet[k].length - 1
            /\ ships = damaged(fleet, caps)
    /\ titleState = STATE_NEWGAME
    /\ titleIndex = 0
    /\ chosen = 0
    /\ ret = [op |-> "none"]

\* game.checkGameOver()
CheckGameOver ==
    LET r == checkGameOver(G)
    IN  /\ Install(r.g)
        /\ ret' = [op |-> "checkGameOver", ret |-> r.ret,
                   before |-> [state |-> state, playerWon |-> playerWon]]

SpecGameOver == InitGameOver /\ [][CheckGameOver]_vars

----------------------------------------------------------------------------
(* Ship.move and Ship.rotate applied directly to ships placed anywhere *)

\* every bow position and orientation that puts a ship of a length on the board
Placements(length) ==
    {p \in [x : 0..(GRID_COLS - 1), y : 0..(GRID_ROWS - 1),
            orientation : Orientations] :
        LET cells == getCellsAt([length |-> length], p.x, p.y, p.orientation)
        IN  \A k \in 1..length : isValidCell(cells[k].x, cells[k].y)}

\* new Ship(...) at a placement, with a capacity left
placed(length, team, p, cap) ==
    [Ship(p.x, p.y, length, p.orientation, team) EXCEPT !.cannonsPerSide = cap]

\* no two living ships share a cell: what canOccupy keeps true of a fleet
legalFleet(sh) ==
    \A i, j \in DOMAIN sh :
        (i # j /\ isAlive(sh[i]) /\ isAlive(sh[j])) =>
            Range(getCells(sh[i])) \cap Range(getCells(sh[j])) = {}

\* the Game fields around the ships, at rest
atRest ==
    /\ state = PLAYER_SELECT
    /\ selectedShip = 0
    /\ playerWon = FALSE
    /\ gameMode = SINGLE_PLAYER
    /\ aiActions = <<>>
    /\ aiActionIndex = 0
    /\ aiActionTimer = 0
    /\ titleState = STATE_NEWGAME
    /\ titleIndex = 0
    /\ chosen = 0
    /\ ret = [op |-> "none"]

restUnchanged ==
    UNCHANGED <<state, selectedShip, playerWon, gameMode, aiActions,
                aiActionIndex, aiActionTimer, titleState, titleIndex, chosen>>

\* a ship of length 3 and a ship of length 2, living or destroyed, anywhere
InitSail ==
    /\ atRest
    /\ \E p1 \in Placements(3), p2 \in Placements(2), c2 \in 0..1 :
          /\ ships = << placed(3, "player", p1, 2), placed(2, "enemy", p2, c2) >>
          /\ legalFleet(ships)

MoveDirections == {"forward", "backward"}
RotateDirections == {"cw", "ccw"}

\* ship.move(direction, allShips)
Move ==
    \E k \in DOMAIN ships, direction \in MoveDirections :
        LET r == move(ships, k, direction)
        IN  /\ ships' = r.ships
            /\ ret' = [op |-> "move", ship |-> k, direction |-> direction,
                       ok |-> r.ok, before |-> ships]
            /\ restUnchanged

\* ship.rotate(direction, allShips)
Rotate ==
    \E k \in DOMAIN ships, direction \in RotateDirections :
        LET r == rotate(ships, k, direction)
        IN  /\ ships' = r.ships
            /\ ret' = [op |-> "rotate", ship |-> k, direction |-> direction,
                       ok |-> r.ok, before |-> ships]
            /\ restUnchanged

\* ship.rotate(direction, allShips) called four times in a row
RotateFour ==
    \E k \in DOMAIN ships, direction \in RotateDirections :
        LET r1 == rotate(ships, k, direction)
            r2 == rotate(r1.ships, k, direction)
            r3 == rotate(r2.ships, k, direction)
            r4 == rotate(r3.ships, k, direction)
        IN  /\ ships' = r4.ships
            /\ ret' = [op |-> "rotate4", ship |-> k, direction |-> direction,
                       oks |-> <<r1.ok, r2.ok, r3.ok, r4.ok>>, before |-> ships]
            /\ restUnchanged

\* ship.move('forward', allShips) then ship.move('backward', allShips)
ForwardBackward ==
    \E k \in DOMAIN ships :
        LET r1 == move(ships, k, "forward")
            r2 == move(r1.ships, k, "backward")
        IN  /\ ships' = r2.ships
            /\ ret' = [op |-> "forwardBackward", ship |-> k,
                       oks |-> <<r1.ok, r2.ok>>, before |-> ships]
            /\ restUnchanged

SpecSail == InitSail /\ [][Move \/ Rotate \/ RotateFour \/ ForwardBackward]_vars

----------------------------------------------------------------------------
(* Combat.fireBroadside and Combat.fire applied directly *)

\* where the third ship of the combat fleet is placed
EscortPlacements ==
    {[x |-> 1, y |-> 2, orientation |-> RIGHT],
     [x |-> 3, y |-> 1, orientation |-> DOWN]}

\* a ship of length 3 on either side, anywhere and with any capacity left, and
\* a ship of length 2
InitCombat ==
    /\ atRest
    /\ \E p1 \in Placements(3), p2 \in Placements(3), p3 \in EscortPlacements :
          \E c1 \in 0..2, c2 \in 0..2 :
              /\ ships = << placed(3, "player", p1, c1), placed(3, "enemy", p2, c2),
                           placed(2, "player", p3, 1) >>
              /\ legalFleet(ships)

\* the cells a click can name
BoardCells == {Cell(cx, cy) : cx \in 0..(GRID_COLS - 1), cy \in 0..(GRID_ROWS - 1)}

\* combat.fireBroadside(attacker, allShips), once on each fleet
FireBroadside ==
    /\ ret.op = "none"
    /\ \E k \in DOMAIN ships :
         LET r == fireBroadside(ships, k)
         IN  /\ ships' = r.ships
             /\ ret' = [op |-> "fireBroadside", attacker |-> k, hits |-> r.hits,
                        before |-> ships]
             /\ restUnchanged

\* combat.fire(attacker, targetCell, allShips), once on each fleet
Fire ==
    /\ ret.op = "none"
    /\ \E k \in DOMAIN ships, targetCell \in BoardCells :
         LET r == fire(ships, k, targetCell)
         IN  /\ ships' = r.ships
             /\ ret' = [op |-> "fire", attacker |-> k, targetCell |-> targetCell,
                        hitShip |-> r.hitShip, destroyed |-> r.destroyed,
                        before |-> ships]
             /\ restUnchanged

SpecCombat == InitCombat /\ [][FireBroadside \/ Fire]_vars

----------------------------------------------------------------------------
(* The fire-phase branches of handleKeyDown and handleClick, which act only *)
(* on a selected ship (this.selectedShip && !this.selectedShip.hasFired):   *)
(* the handlers applied to a game in a fire phase with its ship selected    *)

InitFirePhase ==
    /\ gameMode \in {SINGLE_PLAYER, TWO_PLAYER}
    /\ state \in (IF gameMode = SINGLE_PLAYER THEN {PLAYER_FIRE}
                  ELSE {PLAYER_FIRE, PLAYER2_FIRE})
    /\ \E p1 \in Placements(2), p2 \in Placements(3) :
          /\ ships = << placed(2, "player", p1, 1), placed(3, "enemy", p2, 2) >>
          /\ legalFleet(ships)
    /\ selectedShip = (IF state = PLAYER_FIRE THEN 1 ELSE 2)
    /\ chosen = selectedShip
    /\ playerWon = FALSE
    /\ aiActions = <<>>
    /\ aiActionIndex = 0
    /\ aiActionTimer = 0
    /\ titleState = STATE_NEWGAME
    /\ titleIndex = 0
    /\ ret = [op |-> "none"]

\* a key pressed in a fire phase
FirePhaseKey == state \in {PLAYER_FIRE, PLAYER2_FIRE} /\ KeyDown

\* a click in a fire phase
FirePhaseClick == state \in {PLAYER_FIRE, PLAYER2_FIRE} /\ Click

SpecFirePhase == InitFirePhase /\ [][FirePhaseKey \/ FirePhaseClick]_vars

----------------------------------------------------------------------------
(* Properties *)

sideAlive(sh, team) == \E k \in DOMAIN sh : sh[k].team = team /\ isAlive(sh[k])

inBounds(c) == 0 <= c.x /\ c.x < GRID_COLS /\ 0 <= c.y /\ c.y < GRID_ROWS

FirePhases == {PLAYER_FIRE, PLAYER2_FIRE}

\* C1: in every reachable state the occupied-cell sets of any two distinct
\* living ships are disjoint.
C1_LivingShipsDisjoint ==
    \A i, j \in DOMAIN ships :
        (i # j /\ isAlive(ships[i]) /\ isAlive(ships[j]))
            => Range(getCells(ships[i])) \cap Range(getCells(ships[j])) = {}

\* the selected ship stands in front of another living ship: its forward
\* cells are on the board and the move is refused
C1_Witness ==
    /\ state = PLAYER_MOVE /\ selectedShip # 0
    /\ LET s == ships[selectedShip]
           dir == DIRECTION_VECTORS(s.orientation)
           ahead == getCellsAt(s, s.x + dir.dx, s.y + dir.dy, s.orientation)
       IN  /\ \A k \in 1..Len(ahead) : inBounds(ahead[k])
           /\ \E o \in DOMAIN ships :
                 /\ o # selectedShip /\ isAlive(ships[o])
                 /\ Range(ahead) \cap Range(getCells(ships[o])) # {}
           /\ ~move(ships, selectedShip, "forward").ok

\* C2: in every reachable state every occupied cell of every ship and every
\* cell of every ship's narrow fire zone satisfies 0 <= x < cols, 0 <= y < rows.
C2_CellsInBounds ==
    \A k \in DOMAIN ships :
        /\ \A c \in Range(getCells(ships[k])) : inBounds(c)
        /\ \A c \in getSideFireZones(ships[k]) : inBounds(c)

\* a ship has turned to stand along the right edge: the zone cell beyond the
\* edge is left out, the one on the board is kept
C2_Witness ==
    \E k \in DOMAIN ships :
        /\ isAlive(ships[k])
        /\ ships[k].orientation \in {UP, DOWN}
        /\ ships[k].x = GRID_COLS - 1
        /\ Cardinality(getSideFireZones(ships[k])) = ships[k].cannonsPerSide

\* C3: every ship has 0 <= cannonsPerSide <= length - 1 whatever amounts
\* takeDamage is applied with; takeDamage floors the capacity at 0 and returns
\* true exactly when the capacity is 0 afterwards.
C3_CapacityInRange ==
    /\ \A k \in DOMAIN ships :
          0 <= ships[k].cannonsPerSide /\ ships[k].cannonsPerSide <= ships[k].length - 1
    /\ ret.op = "takeDamage" =>
          /\ ships[ret.ship].cannonsPerSide =
                IF ret.before - ret.amount >= 0 THEN ret.before - ret.amount ELSE 0
          /\ ret.destroyed = (ships[ret.ship].cannonsPerSide = 0)

\* a living ship took more damage than it had capacity left
C3_Witness ==
    /\ ret.op = "takeDamage"
    /\ ret.before > 0 /\ ret.amount > ret.before
    /\ ships[ret.ship].cannonsPerSide = 0 /\ ret.destroyed

MatchPhases == GameState \ {TITLE}

\* a change of phase within a single-player match (not to or from the title
\* menu, not the restart after a game over)
PhaseChange ==
    /\ gameMode' = SINGLE_PLAYER /\ gameMode = SINGLE_PLAYER
    /\ state \in MatchPhases \ {GAME_OVER} /\ state' \in MatchPhases
    /\ state' # state

ChainSteps ==
    { <<PLAYER_SELECT, PLAYER_MOVE>>, <<PLAYER_MOVE, PLAYER_FIRE>>,
      <<PLAYER_FIRE, ENEMY_TURN>>, <<ENEMY_TURN, PLAYER_SELECT>>,
      <<PLAYER_MOVE, PLAYER_SELECT>>, <<PLAYER_FIRE, PLAYER_SELECT>> }
        \cup {<<p, GAME_OVER>> : p \in MatchPhases}

\* C4 as claimed: in single-player mode the phase changes only along
\* SelectA -> MoveA -> FireA -> AITurn -> SelectA, apart from deselection back
\* to SelectA and entry into GameOver.
C4_PhaseChain ==
    [][PhaseChange => <<state, state'>> \in ChainSteps]_vars

\* C4 as amended: the same, and ENTER in SelectA ends the turn, so AITurn is
\* entered from FireA or from SelectA.
C4_PhaseChainWithEndTurn ==
    [][PhaseChange => <<state, state'>> \in
                         ChainSteps \cup {<<PLAYER_SELECT, ENEMY_TURN>>}]_vars

\* a single-player match is back in SelectA after an AI turn in which the
\* enemy ship moved
C4_Witness ==
    /\ gameMode = SINGLE_PLAYER /\ state = PLAYER_SELECT
    /\ \E k \in DOMAIN ships : ships[k].team = "enemy" /\ ships[k].hasMoved

\* C5: after ENTER in a move phase the phase is the matching fire phase, the
\* ship's highlight is cleared and the active ship is still the ship chosen in
\* this turn's select phase.
C5_ConfirmKeepsActiveShip ==
    state \in FirePhases =>
        /\ chosen # 0 /\ selectedShip = chosen
        /\ ~ships[chosen].selected

\* C6: in the fire phase reached by click, move and ENTER, the fire input
\* fires the broadside of the ship chosen this turn and sets its hasFired.
C6_FireInputFires ==
    state \in FirePhases =>
        /\ chosen # 0
        /\ \A g \in handleKeyDown(G, " ") : g.ships[chosen].hasFired

\* no human ship ever fires: in single-player mode no player ship has hasFired
NoHumanFire ==
    gameMode = SINGLE_PLAYER =>
        \A k \in DOMAIN ships : ships[k].team = "player" => ~ships[k].hasFired

\* C7: the player can win by destroying all enemy ships: with every living
\* enemy ship one hit from destruction and in the narrow fire zone of the ship
\* chosen this turn, the fire input leaves no enemy ship alive.
C7_WinningBroadsideWins ==
    ( /\ gameMode = SINGLE_PLAYER /\ state = PLAYER_FIRE /\ chosen # 0
      /\ \A k \in DOMAIN ships :
            (ships[k].team = "enemy" /\ isAlive(ships[k])) =>
                /\ ships[k].cannonsPerSide = 1
                /\ \E t \in Range(getTargetsInRange(ships, chosen)) : t.ship = k )
    => \A g \in handleKeyDown(G, " ") : ~sideAlive(g.ships, "enemy")

\* no match is ever won by the player, and no enemy ship is ever damaged
NoPlayerVictory ==
    /\ ~(state = GAME_OVER /\ playerWon)
    /\ \A k \in DOMAIN ships :
          ships[k].team = "enemy" => ships[k].cannonsPerSide = ships[k].length - 1

\* C8 as claimed: no reachable in-match state has a side with no living ship
\* and a phase other than GameOver.
C8_OverAtOnce ==
    (state # TITLE /\ (~sideAlive(ships, "player") \/ ~sideAlive(ships, "enemy")))
        => state = GAME_OVER

\* C8 as amended: a side with no living ship is found only in GameOver or in
\* AITurn, where the end condition is evaluated once the log lines of the AI's
\* action have been shown.
C8_OverAfterAITurn ==
    (state # TITLE /\ (~sideAlive(ships, "player") \/ ~sideAlive(ships, "enemy")))
        => state \in {GAME_OVER, ENEMY_TURN}

\* the AI's broadside destroyed the last player ship and the turn's end found it
C8_Witness ==
    /\ state = GAME_OVER /\ ~playerWon
    /\ ~sideAlive(ships, "player") /\ sideAlive(ships, "enemy")
    /\ aiActions = << <<"Enemy fired:", "destroyed a ship">> >>
    /\ aiActionIndex = 1

C10_CheckGameOver ==
    ret.op = "checkGameOver" =>
        LET playerAlive == sideAlive(ships, "player")
            enemyAlive == sideAlive(ships, "enemy")
        IN  /\ ret.ret = (~playerAlive \/ ~enemyAlive)
            /\ ret.ret => (state = GAME_OVER /\ playerWon = ~enemyAlive)
            /\ ~ret.ret => (state = ret.before.state /\ playerWon = ret.before.playerWon)

\* checkGameOver found both sides without a living ship in a running phase
\* and marked side A the winner
C10_Witness ==
    /\ ret.op = "checkGameOver"
    /\ ret.ret /\ ret.before.state # GAME_OVER /\ ~ret.before.playerWon
    /\ state = GAME_OVER /\ playerWon
    /\ ~sideAlive(ships, "player")

----------------------------------------------------------------------------
(* Ship.move and Ship.rotate *)

\* the cells of a ship of a length with its bow at (bx, by) facing o
hull(bx, by, o, length) ==
    {Cell(bx - i * DIRECTION_VECTORS(o).dx, by - i * DIRECTION_VECTORS(o).dy) :
        i \in 0..(length - 1)}

\* cells are on the board and on no living ship of sh other than id
freeFor(sh, id, cells) ==
    /\ \A c \in cells : inBounds(c)
    /\ \A o \in DOMAIN sh \ {id} :
          sh[o].cannonsPerSide > 0 =>
              cells \cap hull(sh[o].x, sh[o].y, sh[o].orientation, sh[o].length) = {}

\* the orientation a quarter turn away
quarterTurn(o, direction) ==
    IF direction = "cw"
    THEN CASE o = UP -> RIGHT [] o = RIGHT -> DOWN [] o = DOWN -> LEFT [] o = LEFT -> UP
    ELSE CASE o = UP -> LEFT [] o = LEFT -> DOWN [] o = DOWN -> RIGHT [] o = RIGHT -> UP

\* C13: move(forward|backward) returns true iff the ship's cells one unit
\* along (forward) or against (backward) its orientation vector are all on the
\* board and free of other living ships; then the bow has moved by exactly that
\* unit and nothing else changed, otherwise nothing changed at all.  A ship with
\* its bow on the edge facing outward gets false from move('forward').
C13_MoveContract ==
    ret.op = "move" =>
        LET b == ret.before
            me == b[ret.ship]
            v == DIRECTION_VECTORS(me.orientation)
            sgn == IF ret.direction = "forward" THEN 1 ELSE -1
            nx == me.x + sgn * v.dx
            ny == me.y + sgn * v.dy
            free == freeFor(b, ret.ship, hull(nx, ny, me.orientation, me.length))
        IN  /\ ret.ok = free
            /\ ships = IF free THEN [b EXCEPT ![ret.ship].x = nx, ![ret.ship].y = ny]
                       ELSE b
            /\ (ret.direction = "forward" /\ ~inBounds(Cell(me.x + v.dx, me.y + v.dy)))
                  => (~ret.ok /\ ships = b)

\* move('forward') was refused to a ship with its bow on the edge, facing outward
C13_Witness ==
    /\ ret.op = "move" /\ ret.direction = "forward" /\ ~ret.ok
    /\ LET me == ret.before[ret.ship]
           v == DIRECTION_VECTORS(me.orientation)
       IN  /\ ~inBounds(Cell(me.x + v.dx, me.y + v.dy))
           /\ ships[ret.ship].x = me.x /\ ships[ret.ship].y = me.y

\* C14: rotate(cw|ccw) returns true iff the cells at the current bow with the
\* orientation a quarter turn away are all on the board and free of other
\* living ships; then only the orientation changed, to that quarter turn,
\* otherwise nothing changed; the bow never moves and the orientation stays
\* one of 0, 90, 180, 270.
C14_RotateContract ==
    /\ \A k \in DOMAIN ships : ships[k].orientation \in {0, 90, 180, 270}
    /\ ret.op = "rotate" =>
        LET b == ret.before
            me == b[ret.ship]
            newO == quarterTurn(me.orientation, ret.direction)
            free == freeFor(b, ret.ship, hull(me.x, me.y, newO, me.length))
        IN  /\ ret.ok = free
            /\ ships = IF free THEN [b EXCEPT ![ret.ship].orientation = newO] ELSE b
            /\ ships[ret.ship].x = me.x /\ ships[ret.ship].y = me.y

\* a rotation that stays on the board was refused because of a living ship
C14_Witness ==
    /\ ret.op = "rotate" /\ ~ret.ok
    /\ LET me == ret.before[ret.ship]
           cells == hull(me.x, me.y, quarterTurn(me.orientation, ret.direction),
                         me.length)
       IN  /\ \A c \in cells : inBounds(c)
           /\ ships[ret.ship].orientation = me.orientation

\* C15 as claimed: four calls of rotate in the same direction, from any legal
\* position, leave the ship with its original orientation and cells.
C15_FourRotationsReturn ==
    ret.op = "rotate4" => ships = ret.before

\* C15 as amended: four calls of rotate in the same direction bring the ship
\* back to its original orientation and cells exactly when none of the calls
\* is refused or the first one is; a ship whose later quarter turn is refused
\* stays in the orientation it had reached.
C15_FourRotationsReturnUnlessRefused ==
    ret.op = "rotate4" =>
        LET allOk == \A i \in 1..4 : ret.oks[i]
            back == /\ ships[ret.ship].orientation = ret.before[ret.ship].orientation
                    /\ getCells(ships[ret.ship]) = getCells(ret.before[ret.ship])
        IN  /\ back = (allOk \/ ~ret.oks[1])
            /\ (allOk \/ ~ret.oks[1]) => ships = ret.before

\* four accepted quarter turns brought a ship back to where it started
C15_Witness ==
    /\ ret.op = "rotate4"
    /\ \A i \in 1..4 : ret.oks[i]
    /\ ships = ret.before

\* C16 as claimed: move('forward') then move('backward') leaves any ship at its
\* original bow position.
C16_ForwardBackwardReturns ==
    ret.op = "forwardBackward" =>
        /\ ships[ret.ship].x = ret.before[ret.ship].x
        /\ ships[ret.ship].y = ret.before[ret.ship].y

\* C16 as amended: move('forward') then move('backward') leaves the ship at its
\* original bow position when the forward move is accepted and the cells it
\* started on hold no other living ship (always so for a living ship: the
\* backward move is then accepted too), or when both moves are refused; when
\* the forward move is refused and the backward move accepted the bow ends one
\* unit behind.
C16_ForwardBackwardReturnsIfAccepted ==
    ret.op = "forwardBackward" =>
        LET me == ret.before[ret.ship]
            v == DIRECTION_VECTORS(me.orientation)
            startFree == freeFor(ret.before, ret.ship,
                                 hull(me.x, me.y, me.orientation, me.length))
        IN  /\ me.cannonsPerSide > 0 => startFree
            /\ (ret.oks[1] /\ startFree) => (ret.oks[2] /\ ships = ret.before)
            /\ (~ret.oks[1] /\ ~ret.oks[2]) => ships = ret.before
            /\ (~ret.oks[1] /\ ret.oks[2]) =>
                  ships = [ret.before EXCEPT ![ret.ship].x = me.x - v.dx,
                                             ![ret.ship].y = me.y - v.dy]

\* an accepted forward move and the backward move after it
C16_Witness ==
    /\ ret.op = "forwardBackward"
    /\ ret.oks[1] /\ ret.oks[2]
    /\ ships = ret.before

----------------------------------------------------------------------------
(* Combat *)

\* the cells on the board beside body segments 1..min(capacity, length - 1) of
\* a ship: to the left and right of a vertical ship, above and below a
\* horizontal one
narrowZone(ship) ==
    LET v == DIRECTION_VECTORS(ship.orientation)
        top == IF ship.cannonsPerSide < ship.length - 1
               THEN ship.cannonsPerSide ELSE ship.length - 1
        beside == {Cell(ship.x - i * v.dx + side * v.dy,
                        ship.y - i * v.dy + side * v.dx) :
                      i \in 1..top, side \in {-1, 1}}
    IN  {c \in beside : inBounds(c)}

\* the cells a ship lies on
hullOf(ship) == hull(ship.x, ship.y, ship.orientation, ship.length)

\* the living ships of the other team with a cell in the attacker's zone
inZone(sh, attacker) ==
    {k \in DOMAIN sh :
        /\ sh[k].team # sh[attacker].team
        /\ sh[k].cannonsPerSide > 0
        /\ hullOf(sh[k]) \cap narrowZone(sh[attacker]) # {}}

\* sh with one cannon fewer on every ship of a set
oneHitEach(sh, hit) ==
    [k \in DOMAIN sh |->
        IF k \in hit
        THEN [sh[k] EXCEPT !.cannonsPerSide = sh[k].cannonsPerSide - 1]
        ELSE sh[k]]

\* C11: fireBroadside by an attacker with capacity > 0 takes exactly one
\* cannon from every living enemy ship with at least one cell in the attacker's
\* narrow zone, however many of its cells are in the zone, reports each of
\* them once, and changes no other ship.
C11_BroadsideOneHitEach ==
    (ret.op = "fireBroadside" /\ ret.before[ret.attacker].cannonsPerSide > 0) =>
        LET hit == inZone(ret.before, ret.attacker)
        IN  /\ ships = oneHitEach(ret.before, hit)
            /\ Len(ret.hits) = Cardinality(hit)
            /\ {ret.hits[i].ship : i \in 1..Len(ret.hits)} = hit
            /\ \A i \in 1..Len(ret.hits) :
                  ret.hits[i].destroyed = (ships[ret.hits[i].ship].cannonsPerSide = 0)

\* a broadside caught two cells of an enemy ship with two cannons per side,
\* which lost one of them
C11_Witness ==
    /\ ret.op = "fireBroadside"
    /\ \E k \in DOMAIN ships :
          /\ Cardinality(hullOf(ret.before[k])
                            \cap narrowZone(ret.before[ret.attacker])) = 2
          /\ ret.before[k].cannonsPerSide = 2
          /\ ships[k].cannonsPerSide = 1
          /\ ret.hits = << [ship |-> k, destroyed |-> FALSE] >>

\* C17: the narrow zone of every ship is exactly the set of cells on the board
\* beside body segments 1..min(capacity, length - 1); no cell beside the bow is
\* in it; segments nearer the stern stop firing first: a ship of length 3 with
\* its bow at (3,1) facing right has zone {(2,0),(2,2),(1,0),(1,2)} at capacity
\* 2 and {(2,0),(2,2)} at capacity 1 (the spec's example with bow (5,5),
\* moved onto the model's board).
C17_SideFireZones ==
    /\ \A k \in DOMAIN ships :
          LET v == DIRECTION_VECTORS(ships[k].orientation)
          IN  /\ getSideFireZones(ships[k]) = narrowZone(ships[k])
              /\ \A side \in {-1, 1} :
                    Cell(ships[k].x + side * v.dy, ships[k].y + side * v.dx)
                        \notin getSideFireZones(ships[k])
    /\ LET example == [x |-> 3, y |-> 1, orientation |-> RIGHT]
       IN  /\ getSideFireZones(placed(3, "player", example, 2))
                  = {Cell(2, 0), Cell(2, 2), Cell(1, 0), Cell(1, 2)}
           /\ getSideFireZones(placed(3, "player", example, 1))
                  = {Cell(2, 0), Cell(2, 2)}

\* a ship of length 3 was hit and its zone narrowed from the cells beside both
\* body segments to the cells beside the one next to the bow
C17_Witness ==
    /\ ret.op = "fireBroadside"
    /\ \E k \in DOMAIN ships :
          LET v == DIRECTION_VECTORS(ships[k].orientation)
          IN  /\ ships[k].length = 3 /\ ships[k].cannonsPerSide = 1
              /\ ret.before[k].cannonsPerSide = 2
              /\ Cardinality(getSideFireZones(ret.before[k])) = 4
              /\ getSideFireZones(ships[k]) =
                    {Cell(ships[k].x - v.dx + side * v.dy,
                          ships[k].y - v.dy + side * v.dx) : side \in {-1, 1}}

\* C18: fire(attacker, targetCell) takes exactly one cannon from the living
\* enemy ship on targetCell when targetCell is in the attacker's narrow zone,
\* and returns that ship; otherwise (cell outside the zone, or no living enemy
\* ship on it) it returns a null hit with destroyed = false and changes no ship.
C18_FireSingle ==
    ret.op = "fire" =>
        LET b == ret.before
            on == {k \in DOMAIN b :
                      /\ b[k].team # b[ret.attacker].team
                      /\ b[k].cannonsPerSide > 0
                      /\ ret.targetCell \in hullOf(b[k])}
        IN  IF ret.targetCell \in narrowZone(b[ret.attacker]) /\ on # {}
            THEN /\ ret.hitShip \in on
                 /\ ships = oneHitEach(b, {ret.hitShip})
                 /\ ret.destroyed = (ships[ret.hitShip].cannonsPerSide = 0)
            ELSE /\ ret.hitShip = 0 /\ ret.destroyed = FALSE
                 /\ ships = b

\* a shot at a cell of a living enemy ship outside the attacker's zone came
\* back as a null hit
C18_Witness ==
    /\ ret.op = "fire" /\ ret.hitShip = 0
    /\ ret.before[ret.attacker].cannonsPerSide > 0
    /\ ret.targetCell \notin narrowZone(ret.before[ret.attacker])
    /\ \E k \in DOMAIN ships :
          /\ ships[k].team # ships[ret.attacker].team
          /\ ships[k].cannonsPerSide > 0
          /\ ret.targetCell \in hullOf(ships[k])

\* C19: an attacker with capacity 0 cannot fire: its fireBroadside returns no
\* hits, its fire returns a null hit, and neither changes any ship, wherever
\* the enemy ships are.
C19_DestroyedCannotFire ==
    (ret.op \in {"fireBroadside", "fire"}
        /\ ret.before[ret.attacker].cannonsPerSide = 0) =>
        /\ ships = ret.before
        /\ ret.op = "fireBroadside" => ret.hits = <<>>
        /\ ret.op = "fire" => (ret.hitShip = 0 /\ ret.destroyed = FALSE)

\* a destroyed ship fired at the cell of a living enemy ship right beside its
\* body and hit nothing
C19_Witness ==
    /\ ret.op = "fire" /\ ret.hitShip = 0
    /\ ret.before[ret.attacker].cannonsPerSide = 0
    /\ ret.targetCell \in
          narrowZone([ret.before[ret.attacker] EXCEPT !.cannonsPerSide = 2])
    /\ \E k \in DOMAIN ships :
          /\ ships[k].team # ships[ret.attacker].team
          /\ ships[k].cannonsPerSide > 0
          /\ ret.targetCell \in hullOf(ships[k])

\* C20: a fire action, broadside or single, lowers the capacity only of living
\* ships of the team opposing the attacker, by one each; no ship that already
\* had capacity 0 is reported hit; and getTargetsInRange lists only living
\* ships of the opposing team, each at most once.
C20_DamageOnlyLivingEnemies ==
    /\ ret.op \in {"fireBroadside", "fire"} =>
          LET b == ret.before
              struck == IF ret.op = "fire"
                        THEN {ret.hitShip} \ {0}
                        ELSE {ret.hits[i].ship : i \in 1..Len(ret.hits)}
          IN  /\ \A k \in DOMAIN ships :
                    (ships[k] # b[k] \/ k \in struck) =>
                        /\ k # ret.attacker
                        /\ b[k].team # b[ret.attacker].team
                        /\ b[k].cannonsPerSide > 0
                        /\ ships[k] = [b[k] EXCEPT !.cannonsPerSide =
                                                      b[k].cannonsPerSide - 1]
              /\ ret.op = "fireBroadside" => Len(ret.hits) = Cardinality(struck)
    /\ \A a \in DOMAIN ships :
          LET targets == getTargetsInRange(ships, a)
          IN  /\ \A i, j \in 1..Len(targets) :
                    i # j => targets[i].ship # targets[j].ship
              /\ \A i \in 1..Len(targets) :
                    /\ targets[i].ship # a
                    /\ ships[targets[i].ship].team # ships[a].team
                    /\ ships[targets[i].ship].cannonsPerSide > 0

\* a broadside passed over a destroyed enemy ship and a ship of the attacker's
\* own team lying in its zone and hit nothing
C20_Witness ==
    /\ ret.op = "fireBroadside" /\ ret.hits = <<>>
    /\ ret.before[ret.attacker].cannonsPerSide > 0
    /\ \E k, m \in DOMAIN ships :
          /\ k # ret.attacker /\ m # ret.attacker
          /\ ships[k].team # ships[ret.attacker].team
          /\ ships[k].cannonsPerSide = 0
          /\ hullOf(ships[k]) \cap narrowZone(ships[ret.attacker]) # {}
          /\ ships[m].team = ships[ret.attacker].team
          /\ hullOf(ships[m]) \cap narrowZone(ships[ret.attacker]) # {}

----------------------------------------------------------------------------
(* The fire phase *)

\* the side whose fire phase it is
sideInTurn == IF state = PLAYER_FIRE THEN "player" ELSE "enemy"

\* a ship of the side in turn fires in this step
firesNow ==
    \E k \in DOMAIN ships :
        ships[k].team = sideInTurn /\ ~ships[k].hasFired /\ ships'[k].hasFired

\* the phase that hands the turn to the opponent
handedOver ==
    IF gameMode = SINGLE_PLAYER THEN ENEMY_TURN
    ELSE IF state = PLAYER_FIRE THEN PLAYER2_SELECT ELSE PLAYER_SELECT

\* while the fire phase lasts, a step after the active ship has fired changes
\* no ship's capacity
noSecondShot ==
    (state \in FirePhases /\ state' = state
        /\ selectedShip # 0 /\ ships[selectedShip].hasFired) =>
        \A k \in DOMAIN ships : ships'[k].cannonsPerSide = ships[k].cannonsPerSide

\* a step of a fire phase in which the active ship fires sets its hasFired and
\* hands the turn over, or ends the match
fireHandsOver ==
    (state \in FirePhases /\ firesNow) =>
        /\ selectedShip # 0 /\ ships'[selectedShip].hasFired
        /\ state' \in {handedOver, GAME_OVER}

FireAtMostOnce == [][noSecondShot]_vars

\* a fire key in a fire phase, acting on the selected ship, hands the turn over
KeyFireHandsOver ==
    [][(state \in FirePhases /\ firesNow /\ selectedShip' = 0) =>
          state' = handedOver]_vars

----------------------------------------------------------------------------
(* Keys and clicks in the select, move and fire phases *)

SelectPhases == {PLAYER_SELECT, PLAYER2_SELECT}
MovePhases == {PLAYER_MOVE, PLAYER2_MOVE}

\* the select phase of the side whose move or fire phase ph is
selectOf(ph) ==
    IF ph \in {PLAYER_MOVE, PLAYER_FIRE} THEN PLAYER_SELECT ELSE PLAYER2_SELECT

\* the move phase that follows the select phase ph
moveOf(ph) == IF ph = PLAYER_SELECT THEN PLAYER_MOVE ELSE PLAYER2_MOVE

\* the side that selects in the select phase ph
sideOf(ph) == IF ph \in {PLAYER_SELECT, PLAYER_MOVE, PLAYER_FIRE}
              THEN "player" ELSE "enemy"

\* no ship differs between a and b in position, orientation or capacity
sameHulls(a, b) ==
    \A k \in DOMAIN a :
        /\ a[k].x = b[k].x /\ a[k].y = b[k].y
        /\ a[k].orientation = b[k].orientation
        /\ a[k].cannonsPerSide = b[k].cannonsPerSide

\* ship k lies differently in a than in b
sailed(a, b, k) ==
    a[k].x # b[k].x \/ a[k].y # b[k].y \/ a[k].orientation # b[k].orientation

\* a click of the select phase selects only a living ship of the side in turn
\* with neither flag set, and the selection opens the move phase
selectClickContract ==
    state \in SelectPhases =>
        \A grid \in ClickCells :
            LET g == handleClick(G, grid)
                k == g.selectedShip
            IN  k # 0 =>
                  /\ isAlive(ships[k]) /\ ships[k].team = sideOf(state)
                  /\ ~ships[k].hasMoved /\ ~ships[k].hasFired
                  /\ g.ships[k].selected
                  /\ g.state = moveOf(state)

\* a ship that has sailed in the move phase and is deselected is not selected
\* again by a click in the same turn
noReselectAfterMove ==
    (state \in MovePhases /\ selectedShip # 0) =>
        \A key \in Keys : \A g1 \in handleKeyDown(G, key) :
            sailed(g1.ships, ships, selectedShip) =>
                \A g2 \in handleKeyDown(g1, "Tab") : \A grid \in ClickCells :
                    handleClick(g2, grid).selectedShip # selectedShip

\* C23: a click in a select phase selects a ship only if it is alive, belongs
\* to the side in turn and has not yet acted (moved or fired) this turn; a
\* successful selection makes the ship active and opens the move phase.
C23_SelectOnlyFresh == selectClickContract /\ noReselectAfterMove

\* Tab in a move phase returns to the side's select phase, clears the active
\* ship and leaves every position, orientation and capacity as it was
TabDeselectsInMovePhase ==
    state \in MovePhases =>
        \A g \in handleKeyDown(G, "Tab") :
            /\ g.state = selectOf(state) /\ g.selectedShip = 0
            /\ sameHulls(g.ships, ships)

\* C24: Tab in a move phase and in a fire phase alike returns to the side's
\* select phase, clears the active ship and changes no position, orientation
\* or capacity.
C24_TabDeselects ==
    state \in MovePhases \cup FirePhases =>
        \A g \in handleKeyDown(G, "Tab") :
            /\ g.state = selectOf(state) /\ g.selectedShip = 0
            /\ sameHulls(g.ships, ships)

\* Escape returns to the title screen from every phase of a match but GameOver
EscapeToTitleBeforeGameOver ==
    state \in MatchPhases \ {GAME_OVER} =>
        \A g \in handleKeyDown(G, "Escape") : g.state = TITLE

\* C28: Escape returns to the title screen from every phase of a match, the
\* game-over screen included.
C28_EscapeToTitle ==
    state \in MatchPhases =>
        \A g \in handleKeyDown(G, "Escape") : g.state = TITLE

\* Enter in player 1's select phase passes the turn to the opponent
EnterEndsPlayer1Turn ==
    state = PLAYER_SELECT =>
        \A g \in handleKeyDown(G, "Enter") :
            g.state = IF gameMode = SINGLE_PLAYER THEN ENEMY_TURN
                      ELSE PLAYER2_SELECT

\* C29: Enter in a select phase ends the turn of the side in turn: in player
\* 1's select phase it passes the turn to the opponent, in player 2's select
\* phase it passes the turn to player 1 with player 1's flags reset.
C29_EnterEndsTurn ==
    /\ EnterEndsPlayer1Turn
    /\ state = PLAYER2_SELECT =>
          \A g \in handleKeyDown(G, "Enter") :
              /\ g.state = PLAYER_SELECT /\ g.selectedShip = 0
              /\ \A k \in DOMAIN g.ships :
                    g.ships[k].team = "player" =>
                        ~g.ships[k].hasMoved /\ ~g.ships[k].hasFired

----------------------------------------------------------------------------
(* Ships within a match *)

\* startGame replaces the fleets: from the title screen or on a restart
newMatch == state \in {TITLE, GAME_OVER} /\ state' = PLAYER_SELECT

\* every ship keeps its length and team, gains no capacity and stays dead
shipsOnlyWear ==
    /\ DOMAIN ships' = DOMAIN ships
    /\ \A k \in DOMAIN ships :
          /\ ships'[k].cannonsPerSide <= ships[k].cannonsPerSide
          /\ ~isAlive(ships[k]) => ~isAlive(ships'[k])
          /\ ships'[k].length = ships[k].length
          /\ ships'[k].team = ships[k].team

\* C30: within a match no ship's capacity increases from one state to the
\* next, a destroyed ship never becomes alive again, and no ship's length or
\* team changes.
C30_CapacityNeverGrows == [][newMatch \/ shipsOnlyWear]_vars

\* a ship was damaged in this match and the match went on for some frames
C30_Witness ==
    /\ state = ENEMY_TURN /\ aiActionIndex = 0 /\ aiActionTimer < 500
    /\ \E k \in DOMAIN ships : ships[k].cannonsPerSide < ships[k].length - 1

----------------------------------------------------------------------------
(* The per-turn flags *)

\* the phases of each side's turn
TurnPhases(team) ==
    IF team = "player" THEN {PLAYER_SELECT, PLAYER_MOVE, PLAYER_FIRE}
    ELSE {ENEMY_TURN, PLAYER2_SELECT, PLAYER2_MOVE, PLAYER2_FIRE}

\* this step begins a turn of team
entersTurn(team) ==
    /\ state \notin TurnPhases(team)
    /\ state' \in IF team = "player" THEN {PLAYER_SELECT}
                  ELSE {ENEMY_TURN, PLAYER2_SELECT}

\* a flag of ship k is cleared in this step
flagCleared(k) ==
    \/ ships[k].hasMoved /\ ~ships'[k].hasMoved
    \/ ships[k].hasFired /\ ~ships'[k].hasFired

\* within a match a flag is cleared only by the step that begins the ship's
\* side's turn (a new match builds new ships)
clearedOnlyAtTurnStart ==
    newMatch \/ \A k \in DOMAIN ships : flagCleared(k) => entersTurn(ships[k].team)

\* the step that begins a side's turn leaves every ship of that side with both
\* flags false; the AI's turn applies its one action in the same step, so an
\* AI ship then carries the flag of that action and no other
turnStartsCleared ==
    \A team \in {"player", "enemy"} : \A k \in DOMAIN ships' :
        (entersTurn(team) /\ ships'[k].team = team) =>
            IF state' = ENEMY_TURN
            THEN /\ ships'[k].hasMoved => sailed(ships', ships, k)
                 /\ ships'[k].hasFired =>
                       /\ ~sailed(ships', ships, k)
                       /\ aiActions'[1][1] \in {"Enemy fired:",
                                                "Enemy ship fired but missed!"}
                 /\ ~(ships'[k].hasMoved /\ ships'[k].hasFired)
            ELSE ~ships'[k].hasMoved /\ ~ships'[k].hasFired

\* C22: a side's hasMoved and hasFired flags are cleared at the start of that
\* side's own turn, so that on every entry to a side's turn its ships carry no
\* flag of an earlier turn, and no other step (move, confirm, deselect, fire,
\* the opposing side's actions) clears a flag.
C22_FlagsClearedAtTurnStart == [][clearedOnlyAtTurnStart /\ turnStartsCleared]_vars

\* the AI's ship sailed in an earlier turn and fires in this one: its hasMoved
\* was cleared when the turn began
C22_Witness ==
    /\ state = ENEMY_TURN /\ aiActionIndex = 0 /\ aiActionTimer = 500
    /\ \E k \in DOMAIN ships :
          /\ ships[k].team = "enemy" /\ ships[k].hasFired /\ ~ships[k].hasMoved
          /\ ships[k].x # GRID_COLS - ships[k].length

----------------------------------------------------------------------------
(* The AI's turn under the game loop *)

\* gameLoop calls update on every animation frame for as long as the page
\* lives, so a frame that changes the game is eventually taken
SpecFrames == Init /\ [][Next]_vars /\ WF_vars(Frame)

\* the step that ends the AI's turn comes after the last log line and leads to
\* GameOver if a side has no living ship, and otherwise to player 1's select
\* phase with side A's flags cleared and no active ship
aiTurnEnds ==
    (state = ENEMY_TURN /\ state' \notin {ENEMY_TURN, TITLE}) =>
        /\ aiActionIndex = Len(aiActions)
        /\ IF ~sideAlive(ships, "player") \/ ~sideAlive(ships, "enemy")
           THEN state' = GAME_OVER
           ELSE /\ state' = PLAYER_SELECT /\ selectedShip' = 0
                /\ \A k \in DOMAIN ships' :
                      ships'[k].team = "player" =>
                          ~ships'[k].hasMoved /\ ~ships'[k].hasFired

\* C21: every AI turn completes: with the frames going on, the AITurn phase is
\* left (by Escape for the title screen, or else by its own end), and its own
\* end comes after the log lines and leads to GameOver if a side has no living
\* ship, otherwise to SelectA with side A's flags cleared and no active ship.
C21_AITurnCompletes ==
    /\ [][aiTurnEnds]_vars
    /\ (state = ENEMY_TURN) ~> (state \in {GAME_OVER, PLAYER_SELECT, TITLE})

\* an AI turn has shown its log and handed the turn to player 1
C21_Witness ==
    /\ state = PLAYER_SELECT /\ chosen = 0
    /\ aiActions # <<>> /\ aiActionIndex = Len(aiActions)
    /\ sideAlive(ships, "player") /\ sideAlive(ships, "enemy")

----------------------------------------------------------------------------
(* AI.takeTurn applied directly to fleets in which side B has two ships *)

\* one ship of side A and one of side B placed anywhere, a second ship of side
\* B at a placement of the escort, the ships of side B with any capacity left;
\* the flags are clear, as startEnemyTurn leaves them
InitAI ==
    /\ atRest
    /\ \E p1 \in Placements(2), p2 \in Placements(2), p3 \in EscortPlacements :
          \E c2 \in 0..1, c3 \in 0..1 :
              /\ ships = << placed(2, "player", p1, 1), placed(2, "enemy", p2, c2),
                           placed(2, "enemy", p3, c3) >>
              /\ legalFleet(ships)

\* ai.takeTurn(enemyShips, playerShips, ships), once on each fleet
TakeTurn ==
    /\ ret.op = "none"
    /\ \E t \in takeTurn(ships) :
          /\ ships' = t.ships
          /\ ret' = [op |-> "takeTurn", actions |-> t.actions, before |-> ships]
          /\ restUnchanged

\* ai.findBestMove(ship, playerShips, allShips), once on each fleet
FindBestMove ==
    /\ ret.op = "none"
    /\ \E k \in DOMAIN ships : \E r \in findBestMove(ships, k) :
          /\ ships[k].team = "enemy" /\ isAlive(ships[k])
          /\ ships' = r.ships
          /\ ret' = [op |-> "findBestMove", ship |-> k, move |-> r.move,
                     before |-> ships]
          /\ restUnchanged

SpecAI == InitAI /\ [][TakeTurn]_vars

SpecTrial == InitAI /\ [][FindBestMove]_vars

\* what ship k did between the fleets a and b
firedIn(a, b, k) ==
    /\ b[k].hasFired /\ ~b[k].hasMoved /\ ~sailed(b, a, k)
movedIn(a, b, k) ==
    /\ b[k].hasMoved /\ ~b[k].hasFired
    /\ b[k].orientation = a[k].orientation
    /\ Abs(b[k].x - a[k].x) + Abs(b[k].y - a[k].y) = 1
rotatedIn(a, b, k) ==
    /\ b[k].hasMoved /\ ~b[k].hasFired
    /\ b[k].x = a[k].x /\ b[k].y = a[k].y
    /\ (b[k].orientation - a[k].orientation) % 360 \in {90, 270}

\* ship k of side B is as it was: position, orientation and flags
untouched(a, b, k) ==
    /\ ~sailed(b, a, k)
    /\ b[k].hasMoved = a[k].hasMoved /\ b[k].hasFired = a[k].hasFired

\* exactly one living ship of side B committed exactly one action
oneShipActed(a, b) ==
    \E k \in DOMAIN a :
        /\ a[k].team = "enemy" /\ isAlive(a[k])
        /\ firedIn(a, b, k) \/ movedIn(a, b, k) \/ rotatedIn(a, b, k)
        /\ \A j \in DOMAIN a : (j # k /\ a[j].team = "enemy") => untouched(a, b, j)

\* no ship of side B did anything
noShipActed(a, b) == \A j \in DOMAIN a : a[j].team = "enemy" => untouched(a, b, j)

\* this step begins the AI's turn: startEnemyTurn in single-player
aiTurnBegins == state # ENEMY_TURN /\ state' = ENEMY_TURN

\* takeTurn commits one action of one living ship of side B, or none at all
AtMostOneShipActs ==
    ret.op = "takeTurn" =>
        \/ Len(ret.actions) = 1 /\ oneShipActed(ret.before, ships)
        \/ ret.actions = <<>> /\ ships = ret.before

\* C25: every AI turn in which side B has a living ship commits exactly one
\* action (a broadside, a one-cell move or a quarter turn) by exactly one AI
\* ship, and leaves every other AI ship's position, orientation and flags as
\* they were.
C25_OneShipActs ==
    [][(aiTurnBegins /\ sideAlive(ships, "enemy")) =>
          /\ Len(aiActions') = 1
          /\ oneShipActed(clearFlags(ships, "enemy", FALSE), ships')]_vars

\* ship k of side B is alive in the fleet a and has a target in range
canFire(a, k) ==
    a[k].team = "enemy" /\ isAlive(a[k]) /\ Len(getTargetsInRange(a, k)) > 0

\* C26: if at the start of the AI's turn some living AI ship has a target in
\* range, the turn's one action is a broadside by an AI ship that has a target
\* in range, whatever the shuffle, and every other AI ship is left as it was.
C26_FireFirst ==
    (ret.op = "takeTurn" /\ \E k \in DOMAIN ret.before : canFire(ret.before, k)) =>
        /\ Len(ret.actions) = 1 /\ ret.actions[1][1] = "Enemy fired:"
        /\ \E k \in DOMAIN ships :
              /\ canFire(ret.before, k) /\ firedIn(ret.before, ships, k)
              /\ \A j \in DOMAIN ships :
                    (j # k /\ ships[j].team = "enemy") => untouched(ret.before, ships, j)

\* one AI ship had a target in range and fired, while the other living AI ship
\* had none and could have moved
C26_Witness ==
    /\ ret.op = "takeTurn"
    /\ \E k, j \in DOMAIN ships :
          /\ canFire(ret.before, k) /\ firedIn(ret.before, ships, k)
          /\ j # k /\ ret.before[j].team = "enemy" /\ isAlive(ret.before[j])
          /\ ~canFire(ret.before, j)
          /\ \E r \in findBestMove(ret.before, j) : r.move # NoMove

----------------------------------------------------------------------------
(* Game.initShips with the program's own fleets, rows and board *)

FULL_GRID_COLS == 20
FULL_GRID_ROWS == 15
\* the 20 of bowX = 20 - length
ENEMY_EDGE == 20

fleetConfigs == << <<2, 2>>, <<3, 3>>, <<4, 2>> >>
fleetRows == <<0, 2, 4, 6, 8, 10, 12>>

\* s turned r places round, and s back to front
cycled(s, r) == [i \in 1..Len(s) |-> s[((i - 1 + r) % Len(s)) + 1]]
reversed(s) == [i \in 1..Len(s) |-> s[Len(s) + 1 - i]]

\* the outcomes of shuffle taken: every turn of the array and of its reverse
SampleShuffles(s) ==
    {cycled(s, r) : r \in 0..(Len(s) - 1)}
        \cup {cycled(reversed(s), r) : r \in 0..(Len(s) - 1)}

\* the four shuffles of initShips are drawn; no fleet is built yet
InitFleet ==
    /\ state = TITLE
    /\ selectedShip = 0
    /\ playerWon = FALSE
    /\ gameMode = SINGLE_PLAYER
    /\ aiActions = <<>>
    /\ aiActionIndex = 0
    /\ aiActionTimer = 0
    /\ titleState = STATE_TITLE
    /\ titleIndex = 0
    /\ chosen = 0
    /\ ships = <<>>
    /\ \E pl \in SampleShuffles(expandConfigs(fleetConfigs, 1)),
          py \in SampleShuffles(fleetRows),
          el \in SampleShuffles(expandConfigs(fleetConfigs, 1)),
          ey \in SampleShuffles(fleetRows) :
          ret = [op |-> "shuffle", playerLengths |-> pl, playerY |-> py,
                 enemyLengths |-> el, enemyY |-> ey]

\* initShips() with the shuffles drawn
FleetSetup ==
    /\ ret.op = "shuffle"
    /\ ships' = placeShipsOn(ENEMY_EDGE, ret.playerLengths, ret.playerY,
                             ret.enemyLengths, ret.enemyY)
    /\ ret' = [op |-> "initShips"]
    /\ restUnchanged

SpecFleet == InitFleet /\ [][FleetSetup]_vars

\* the number of ships of a team and a length in the fleet
countOf(sh, team, length) ==
    Cardinality({k \in DOMAIN sh : sh[k].team = team /\ sh[k].length = length})

onFullBoard(c) ==
    c.x >= 0 /\ c.x < FULL_GRID_COLS /\ c.y >= 0 /\ c.y < FULL_GRID_ROWS

\* C27: fleet setup gives each side, for every shuffle outcome, exactly 2 ships
\* of length 2, 3 of length 3 and 2 of length 4, each at full capacity, with
\* every cell on the board, no two ships of either fleet sharing a cell, side A
\* facing right and side B facing left.
C27_FleetSetup ==
    ret.op = "initShips" =>
        /\ \A team \in {"player", "enemy"} :
              /\ countOf(ships, team, 2) = 2
              /\ countOf(ships, team, 3) = 3
              /\ countOf(ships, team, 4) = 2
              /\ Cardinality({k \in DOMAIN ships : ships[k].team = team}) = 7
        /\ \A k \in DOMAIN ships :
              /\ ships[k].cannonsPerSide = ships[k].length - 1
              /\ \A c \in Range(getCells(ships[k])) : onFullBoard(c)
              /\ ships[k].orientation = IF ships[k].team = "player" THEN RIGHT ELSE LEFT
              /\ ~ships[k].hasMoved /\ ~ships[k].hasFired
        /\ \A i, j \in DOMAIN ships :
              i # j => Range(getCells(ships[i])) \cap Range(getCells(ships[j])) = {}

\* a fleet was set up in which the shuffles put a ship of length 4 of each side
\* on the same row, last in side A's fleet and first in side B's
C27_Witness ==
    /\ ret.op = "initShips" /\ Len(ships) = 14
    /\ ships[7].length = 4 /\ ships[8].length = 4 /\ ships[7].y = ships[8].y
    /\ ships[7].team = "player" /\ ships[8].team = "enemy"

----------------------------------------------------------------------------
(* The fallback of AI.takeTurn and the trial moves of AI.findBestMove *)

\* the scan of takeTurn finds no candidate: no living ship of side B has a
\* target in range and findBestMove returns null for each of them
scanEmpty(sh) ==
    \A k \in DOMAIN sh :
        (sh[k].team = "enemy" /\ isAlive(sh[k])) =>
            /\ ~canFire(sh, k)
            /\ \A r \in findBestMove(sh, k) : r.move = NoMove

\* ship k has a move or a rotation that Ship.move or Ship.rotate accepts
hasLegalMove(sh, k) ==
    \/ \E d \in MoveDirections : move(sh, k, d).ok
    \/ \E d \in RotateDirections : rotate(sh, k, d).ok

\* an AI turn that begins with an empty scan changes the pose of the ship it
\* falls back to, if that ship has a legal move
fallbackMoves ==
    LET sh == clearFlags(ships, "enemy", FALSE)
    IN  (aiTurnBegins /\ sideAlive(sh, "enemy") /\ scanEmpty(sh)) =>
            \E k \in DOMAIN sh :
                /\ sh[k].team = "enemy" /\ isAlive(sh[k])
                /\ IF hasLegalMove(sh, k) THEN sailed(ships', sh, k)
                   ELSE ships' = sh

\* C31: when the scan finds neither a fire nor a move candidate, the AI falls
\* back to a random living ship and commits its best legal move even if the
\* score is not positive: if that ship has a legal move or rotation, the AI's
\* turn changes its pose by that move.
C31_FallbackMoves == [][fallbackMoves]_vars

\* an AI turn that begins with an empty scan leaves the fleet as it was
FallbackCommitsNothing ==
    [][LET sh == clearFlags(ships, "enemy", FALSE)
       IN  (aiTurnBegins /\ sideAlive(sh, "enemy") /\ scanEmpty(sh)) =>
               ships' = sh /\ aiActions' = <<>>]_vars

\* C32: after findBestMove has tried and scored its candidate moves for a
\* ship, the ship's position and orientation and every other ship are as they
\* were before, for every order of the candidates and whether each trial was
\* accepted or refused.
C32_TrialsLeaveNoTrace ==
    ret.op = "findBestMove" => ships = ret.before

\* findBestMove chose a move for a ship of which one trial was refused and a
\* rotation was accepted
C32_Witness ==
    /\ ret.op = "findBestMove" /\ ret.move # NoMove
    /\ \E d \in MoveDirections : ~move(ret.before, ret.ship, d).ok
    /\ \E d \in RotateDirections : rotate(ret.before, ret.ship, d).ok

----------------------------------------------------------------------------
(* hasMoved *)

\* Ship.move and Ship.rotate leave every flag as it was
MoveLeavesFlags ==
    ret.op \in {"move", "rotate"} =>
        \A k \in DOMAIN ships :
            /\ ships[k].hasMoved = ret.before[k].hasMoved
            /\ ships[k].hasFired = ret.before[k].hasFired

\* a ship that sails in this step of a match has hasMoved afterwards
sailedIsFlagged ==
    newMatch \/ \A k \in DOMAIN ships :
        sailed(ships', ships, k) => ships'[k].hasMoved

\* a ship the AI sails has hasMoved afterwards
AIMoveIsFlagged ==
    [][aiTurnBegins =>
          \A k \in DOMAIN ships : sailed(ships', ships, k) => ships'[k].hasMoved]_vars

\* C36: after a ship has been moved or rotated successfully, by a human in a
\* move phase or by the AI, its hasMoved flag is true (Ship.move and
\* Ship.rotate do not set it; their caller does).
C36_MovedShipsFlagged == [][sailedIsFlagged]_vars

----------------------------------------------------------------------------
(* Whose ships a step changes *)

\* the side that acts in this step: startEnemyTurn sets the phase to AITurn
\* before the AI acts, so the step into AITurn is the AI's
actingSide ==
    IF aiTurnBegins THEN "enemy"
    ELSE IF state \in TurnPhases("player") THEN "player"
    ELSE IF state \in TurnPhases("enemy") THEN "enemy"
    ELSE "none"

\* within a match a step sails only ships of the acting side and takes
\* capacity only from ships of the other side
phaseGated ==
    newMatch \/ \A k \in DOMAIN ships :
        /\ sailed(ships', ships, k) => ships[k].team = actingSide
        /\ ships'[k].cannonsPerSide < ships[k].cannonsPerSide =>
              actingSide \notin {"none", ships[k].team}

\* C33: within a turn only the active side's ships are moved or rotated: in
\* side A's phases no side-B ship's position or orientation changes, in side
\* B's phases (AITurn or player 2's phases) no side-A ship's, and a ship loses
\* capacity only during the opposing side's turn.
C33_PhaseGating == [][phaseGated]_vars

\* player 2 has sailed a ship in a move phase after player 1 has sailed one
C33_Witness ==
    /\ state = PLAYER2_MOVE /\ selectedShip # 0
    /\ ships[selectedShip].team = "enemy"
    /\ ships[selectedShip].orientation # LEFT
    /\ \E k \in DOMAIN ships : ships[k].team = "player" /\ ships[k].orientation # RIGHT

----------------------------------------------------------------------------
(* The wide zone and the hits *)

\* ship k lost capacity in the call
damagedIn(k) == ships[k].cannonsPerSide < ret.before[k].cannonsPerSide

\* ship k has a cell in the attacker's wide zone and none beside a firing
\* body segment: its nearest cell is 2 or 3 cells away laterally
onlyInWideZone(k) ==
    /\ hullOf(ret.before[k]) \cap getFireZones(ret.before[ret.attacker], 3) # {}
    /\ hullOf(ret.before[k]) \cap narrowZone(ret.before[ret.attacker]) = {}

\* C34: the wide zone (getFireZones, up to 3 cells to either side of every
\* cell) never decides a hit: every ship that loses capacity in a broadside or
\* a single shot has a cell at lateral distance exactly 1 from a firing body
\* segment of the attacker, and a ship whose nearest cell is 2 or 3 cells away
\* is never damaged.
C34_WideZoneNeverHits ==
    ret.op \in {"fireBroadside", "fire"} =>
        \A k \in DOMAIN ships :
            /\ damagedIn(k) =>
                  hullOf(ret.before[k]) \cap narrowZone(ret.before[ret.attacker]) # {}
            /\ onlyInWideZone(k) => ~damagedIn(k)

\* a broadside hit a ship beside the attacker and spared a living enemy ship
\* that lay 2 or 3 cells away in the wide zone
C34_Witness ==
    /\ ret.op = "fireBroadside"
    /\ \E k, m \in DOMAIN ships :
          /\ damagedIn(m)
          /\ ret.before[k].team # ret.before[ret.attacker].team
          /\ isAlive(ret.before[k]) /\ onlyInWideZone(k) /\ ~damagedIn(k)

----------------------------------------------------------------------------
(* The active selection *)

\* C35: in every state of a match at most one ship has its selected flag set,
\* a ship's selected flag is set only if it is the active ship, and the active
\* ship is alive and belongs to the side whose phase it is.
C35_OneSelection ==
    state \in MatchPhases =>
        /\ Cardinality({k \in DOMAIN ships : ships[k].selected}) <= 1
        /\ \A k \in DOMAIN ships : ships[k].selected => selectedShip = k
        /\ selectedShip # 0 =>
              /\ isAlive(ships[selectedShip])
              /\ state \in TurnPhases(ships[selectedShip].team)

\* a selection is active in a move phase after the AI has had a turn, and the
\* other ship is not marked
C35_Witness ==
    /\ state \in MovePhases /\ selectedShip # 0
    /\ ships[selectedShip].selected
    /\ aiActions # <<>>
    /\ \E k \in DOMAIN ships : k # selectedShip /\ ~ships[k].selected

----------------------------------------------------------------------------
(* Ship.canOccupy *)

\* the poses a ship can be asked to take: one step off the board included
Poses ==
    [x : (-1)..GRID_COLS, y : (-1)..GRID_ROWS, orientation : Orientations]

\* canOccupy answers as specified for ship k of the fleet sh at every pose
canOccupyAsSpecified(sh, k) ==
    \A p \in Poses :
        LET cells == getCellsAt(sh[k], p.x, p.y, p.orientation)
        IN  canOccupy(sh, k, cells) <=>
                /\ \A c \in Range(cells) : inBounds(c)
                /\ \A o \in DOMAIN sh :
                      (o # k /\ isAlive(sh[o])) =>
                          Range(cells) \cap hullOf(sh[o]) = {}

\* the cells the move or rotation of ret asks for
askedCells ==
    LET b == ret.before[ret.ship]
        v == DIRECTION_VECTORS(b.orientation)
        sgn == IF ret.direction = "forward" THEN 1 ELSE -1
    IN  IF ret.op = "move"
        THEN hull(b.x + sgn * v.dx, b.y + sgn * v.dy, b.orientation, b.length)
        ELSE hull(b.x, b.y, quarterTurn(b.orientation, ret.direction), b.length)

\* a move or rotation into cells that are on the board and held only by
\* destroyed ships or by the ship itself is accepted
wrecksDoNotBlock ==
    (ret.op \in {"move", "rotate"} /\ freeFor(ret.before, ret.ship, askedCells))
        => ret.ok

\* C37: canOccupy is true iff every cell is on the board and no cell is a cell
\* of any other living ship: a destroyed ship never blocks and a ship never
\* collides with its own cells, so a move or rotation into cells held only by
\* destroyed ships or by the ship's own cells succeeds.  (canOccupy is asked
\* on the fleets as placed, which are all the fleets; the moves follow.)
C37_CanOccupy ==
    /\ ret.op = "none" => \A k \in DOMAIN ships : canOccupyAsSpecified(ships, k)
    /\ wrecksDoNotBlock

\* a living ship has sailed onto a cell of a destroyed ship
C37_Witness ==
    /\ ret.op \in {"move", "rotate"} /\ ret.ok
    /\ isAlive(ships[ret.ship])
    /\ \E o \in DOMAIN ships :
          /\ o # ret.ship /\ ~isAlive(ships[o])
          /\ hullOf(ships[ret.ship]) \cap hullOf(ships[o]) # {}
          /\ hullOf(ret.before[ret.ship]) \cap hullOf(ships[o]) = {}

----------------------------------------------------------------------------
(* The last ships of both sides *)

\* C38: in every state at least one side has a living ship: no action destroys
\* the last ship of both sides, since a firing ship is itself alive and only
\* ships of the other team take damage; so the order in which checkGameOver
\* looks at the sides never decides the winner.
C38_SomeSideAlive ==
    /\ sideAlive(ships, "player") \/ sideAlive(ships, "enemy")
    /\ checkGameOver(G) = CheckGameOverPlayerFirst(G)

\* a shot has destroyed the last living ship of a side
C38_Witness ==
    /\ ret.op \in {"fireBroadside", "fire"}
    /\ sideAlive(ret.before, "player") /\ sideAlive(ret.before, "enemy")
    /\ ~sideAlive(ships, "player") \/ ~sideAlive(ships, "enemy")

----------------------------------------------------------------------------
(* The game mode *)

Player2Phases == {PLAYER2_SELECT, PLAYER2_MOVE, PLAYER2_FIRE}

\* the phases each mode excludes
modePhases ==
    /\ gameMode = SINGLE_PLAYER => state \notin Player2Phases
    /\ gameMode = TWO_PLAYER => state # ENEMY_TURN

\* the mode changes only as a match is started from the title screen, and in
\* two-player mode the AI writes no log and its timer does not run
modeStep ==
    /\ gameMode' # gameMode => (state = TITLE /\ state' = PLAYER_SELECT)
    /\ (gameMode = TWO_PLAYER /\ gameMode' = TWO_PLAYER) =>
          /\ aiActions' = aiActions
          /\ aiActionIndex' = aiActionIndex
          /\ aiActionTimer' = aiActionTimer

\* C39: the phases are fixed by the mode chosen when the match starts: in
\* single-player mode the phase is never one of player 2's, in two-player mode
\* it is never AITurn and the AI never acts, and the mode changes only when a
\* new match is started.
C39_ModeFixesPhases == [](modePhases) /\ [][modeStep]_vars

\* a two-player match is in player 2's move phase after a single-player match
\* in which the AI acted
C39_Witness ==
    /\ gameMode = TWO_PLAYER /\ state = PLAYER2_MOVE
    /\ aiActions # <<>>
    /\ \A k \in DOMAIN ships : ~ships[k].hasMoved /\ ~ships[k].hasFired

----------------------------------------------------------------------------
(* The AI's broadside *)

missed == << <<"Enemy ship fired but missed!">> >>

\* C40: when the AI commits a fire action its broadside takes capacity from at
\* least one living ship of side A, and the log never reads 'Enemy ship fired
\* but missed!'.
C40_AIFireHits ==
    ret.op = "takeTurn" =>
        /\ ret.actions # missed
        /\ (\E k \in DOMAIN ships : ships[k].hasFired) =>
              \E p \in DOMAIN ships :
                  /\ ret.before[p].team = "player" /\ isAlive(ret.before[p])
                  /\ ships[p].cannonsPerSide < ret.before[p].cannonsPerSide

\* the AI's log never reads 'Enemy ship fired but missed!'
NeverMissed == aiActions # missed

\* an AI ship fired and destroyed the ship of side A, the other AI ship being
\* destroyed already
C40_Witness ==
    /\ ret.op = "takeTurn"
    /\ ret.actions = << <<"Enemy fired:", "destroyed a ship">> >>
    /\ \E k, j \in DOMAIN ships :
          /\ ships[k].team = "enemy" /\ ships[k].hasFired
          /\ j # k /\ ships[j].team = "enemy" /\ ~isAlive(ships[j])

====
